---- MODULE Spec2Model ----
(***************************************************************************)
(* Model of the suspense cache of apollo-client's useBackgroundQuery:      *)
(*   src/react/cache/SuspenseCache.ts      (add / lookup / remove)         *)
(*   src/react/hooks/useBackgroundQuery.ts (the hook, refetch, fetchMore,  *)
(*                                          useReadQuery)                  *)
(* Promises are numbered boxes; an entry object created by add is named by *)
(* the number of the promise it holds (add creates one entry per call and  *)
(* every call is handed a promise the ObservableQuery has just created).   *)
(* The reactions add attaches (.then / .catch / .finally) are three        *)
(* microtasks that run one after the other once the promise has settled;   *)
(* other jobs may run between them.                                        *)
(***************************************************************************)
EXTENDS Integers, Sequences, FiniteSets, TLC

\* ------------------------------------------------------------------ bounds
\* Number of promises the ObservableQueries may create in one run.
MaxBoxes == 2

\* Number of QuerySubscriptions created in one run, of acquire calls on one
\* QuerySubscription, and of calls of one component's dispose function.
MaxSubs == 2
MaxAcquires == 2
MaxCleanups == 2

\* Number of subscribe calls of one component.
MaxSubscribes == 2

\* Number of fetches one ObservableQuery starts.
MaxFetches == 2

\* Number of properties written in one variables object.
MaxProps == 2

\* ------------------------------------------------------------- value space
Undefined == "undefined"

\* DocumentNodes, compared by identity (Map keys): two objects, which may
\* have been parsed from the same query text.
Queries == {"Q1", "Q2"}

\* The query documents the components render with.
HookQueries == {"Q1"}

\* Component instances calling the hook, and the ObservableQuery each one
\* obtains from client.watchQuery (a fresh object per call).
Consumers == {"c1", "c2"}
Observables == {"O1", "O2"}
NoObservable == Undefined

\* Outcomes of the asynchronous work behind a promise. Every fetch that
\* resolves produces a result object of its own.
Errors == {"E1"}

\* Property names in sort order, as canonicalStringify orders them.
SortedNames == <<"a", "b">>

\* A variables value: defined = FALSE is the JavaScript value undefined,
\* otherwise props lists the object's properties in insertion order.
Obj(props) == [defined |-> TRUE, props |-> props]
UndefinedVariables == [defined |-> FALSE, props |-> <<>>]
EmptyObject == Obj(<<>>)

\* The `variables` option values the consumers pass.
RawVariables ==
    { UndefinedVariables,
      Obj(<< <<"a", "1">>, <<"b", "2">> >>),
      Obj(<< <<"b", "2">>, <<"a", "1">> >>) }

Boxes == 1..MaxBoxes
NoBox == 0

\* The result object the work behind promise b produces when it resolves.
ResultOf(b) == "R" \o ToString(b)
Results == { ResultOf(b) : b \in Boxes }

\* How the build treats the read of `cacheEntry` inside the useState
\* initializer, which runs before the `let cacheEntry` statement: a build
\* that lowers let to var reads undefined, a build that keeps let throws a
\* ReferenceError (temporal dead zone).
LetSemantics == {"var", "tdz"}

VARIABLES
    letSemantics,   \* which of the two builds runs
    queries,        \* SuspenseCache.queries: query -> (key -> entry)
    entries,        \* the CacheEntry objects, by the box they hold
    promises,       \* the promise objects with the fields add writes on them
    nextBox,        \* the next promise an ObservableQuery will create
    hooks,          \* per component: useState / useMemo cells of the hook,
                    \* and (ghost) the situation at its last render
    firstBox,       \* ghost: per (query, key) the promise of the initial
                    \*        fetch, since the key was last deleted
    replaces,       \* ghost: per (query, key) the refetch/fetchMore adds since
                    \*        the key was last deleted
    lastCall,       \* the refetch / fetchMore / remove call that has just
                    \* returned; cleared by the next step
    superseded,     \* ghost: per promise, whether a refetch replaced it in
                    \*        its entry while it was pending, and the promise
                    \*        that refetch returned
    \* the hook built on QuerySubscription (useTrackedSubscriptions)
    subscriptions,  \* the QuerySubscription objects, by number
    nextSub,        \* the next QuerySubscription to be created
    tracked,        \* per component: trackedSubscriptions.current
    attached,       \* per component: rendered and not cleaned up since
    cleanups,       \* per component: calls of its dispose function so far
    \* useObservableQueryResult on one ObservableQuery
    current,        \* observable.getCurrentResult()
    observers,      \* the observers registered on the ObservableQuery, each
                    \* named by its component and the number of its subscribe
    resultRef,      \* per component: resultRef.current
    isMountedRef,   \* per component: isMountedRef.current
    subscribes,     \* per component: subscribe calls so far
    unsubscribes,   \* per (component, subscribe call): whether the unsubscribe
                    \* function that call returned was called never, once,
                    \* or again after that
    \* the ObservableQuery useObservableQueryResult listens to
    watchOptions,   \* the WatchQueryOptions it was created with
    fetch,          \* the promise of its latest fetch (reobserve / refetch)
    fetches,        \* the network fetches it has started so far
    \* one add followed by one lookup
    keyArgs,        \* the two variables objects, and the call that comes next
    keyFound,       \* whether the lookup found the entry the add made
    \* the hook's render, statement by statement
    position,       \* per component: where its call of the hook stands
    \* useReadQuery of the hook built on QuerySubscription
    promiseOf,      \* per QuerySubscription: subscription.promise
    promiseOwner,   \* the cache's reverse map: promise -> QuerySubscription
    latestResult,   \* per QuerySubscription: subscription.result
    reads           \* per component: what its last useReadQuery call did

\* The state of the hook built on QuerySubscription.
subVars == << subscriptions, nextSub, tracked, attached, cleanups >>

\* The state of useObservableQueryResult.
listenVars == << current, observers, resultRef, isMountedRef, subscribes,
                 unsubscribes >>

\* The state of the ObservableQuery's fetches.
fetchVars == << watchOptions, fetch, fetches >>

\* The state of the add / lookup pair.
keyVars == << keyArgs, keyFound >>

\* The state of the render taken statement by statement.
stepVars == << position >>

\* The state of useReadQuery on a QuerySubscription's promise.
readVars == << promiseOf, promiseOwner, latestResult, reads >>

vars == << letSemantics, queries, entries, promises, nextBox, hooks, firstBox,
           replaces, lastCall, superseded, subVars, listenVars, fetchVars,
           keyVars, stepVars, readVars >>

\* -------------------------------------------------------- key construction
\* The value of property n of an object (the last assignment wins).
RECURSIVE PropValue(_, _)
PropValue(props, n) ==
    IF props = <<>> THEN Undefined
    ELSE LET last == props[Len(props)]
         IN IF last[1] = n THEN last[2]
            ELSE PropValue(SubSeq(props, 1, Len(props) - 1), n)

\* The properties of an object from property i on, in insertion order (a
\* name keeps the place of its first assignment), each with its value.
RECURSIVE OwnProps(_, _)
OwnProps(props, i) ==
    IF i > Len(props) THEN <<>>
    ELSE (IF \E j \in 1..(i - 1) : props[j][1] = props[i][1] THEN <<>>
          ELSE << <<props[i][1], PropValue(props, props[i][1])>> >>)
         \o OwnProps(props, i + 1)

\* utilities compact(): copies the properties whose value is not undefined.
compact(variables) ==
    Obj(SelectSeq(OwnProps(variables.props, 1), LAMBDA p : p[2] # Undefined))

\* cache canonicalStringify(): JSON text of the object with its keys sorted;
\* JSON.stringify leaves out properties whose value is undefined. The text is
\* modelled by the sorted list of (name, value) pairs it spells out.
RECURSIVE SortedPairs(_, _)
SortedPairs(props, i) ==
    IF i > Len(SortedNames) THEN <<>>
    ELSE LET n == SortedNames[i]
             v == PropValue(props, n)
         IN (IF v = Undefined THEN <<>> ELSE << <<n, v>> >>)
            \o SortedPairs(props, i + 1)

canonicalStringify(object) == SortedPairs(object.props, 1)

\* getVariablesKey without the default: canonicalStringify(undefined) is
\* undefined, a key of its own.
getVariablesKey_noDefault(variables) ==
    IF variables.defined THEN canonicalStringify(variables)
    ELSE << <<Undefined, Undefined>> >>

\* getVariablesKey that spells the properties out as they were written.
getVariablesKey_asWritten(variables) == variables.props

\* SuspenseCache.getVariablesKey: variables || Object.create(null).
getVariablesKey(variables) ==
    canonicalStringify(IF variables.defined THEN variables ELSE EmptyObject)

Keys == { getVariablesKey(v) : v \in RawVariables }


\* ------------------------------------------------------- SuspenseCache
\* A first level that takes any DocumentNode for the one asked for when the
\* one asked for has no map (documents compared by their text).
MapOf_byText(table, query) ==
    IF query \in DOMAIN table THEN table[query]
    ELSE IF DOMAIN table # {} THEN table[CHOOSE q \in DOMAIN table : TRUE]
    ELSE [k \in {} |-> NoBox]

\* The second-level map of a query (this.queries.get(query) || new Map()).
MapOf(table, query) ==
    IF query \in DOMAIN table THEN table[query] ELSE [k \in {} |-> NoBox]

\* table.get(query)?.get(key): the entry, or NoBox for undefined.
EntryAt(table, query, key) ==
    LET map == MapOf(table, query)
    IN IF key \in DOMAIN map THEN map[key] ELSE NoBox

\* lookup that forgets to canonicalize: it uses the properties in the order
\* the caller wrote them.
lookup_rawKey(query, variables) ==
    EntryAt(queries, query, variables.props)

\* SuspenseCache.lookup
lookup(query, variables) ==
    EntryAt(queries, query, getVariablesKey(variables))

\* add that keeps the entry a key already has.
add_keepExisting(query, variables, promise) ==
    LET key == getVariablesKey(variables)
        map == MapOf(queries, query)
        newMap == [k \in DOMAIN map \cup {key} |->
                      IF k \in DOMAIN map THEN map[k] ELSE promise]
    IN [q \in DOMAIN queries \cup {query} |->
           IF q = query THEN newMap ELSE queries[q]]

\* add that files every entry under the key of the empty object.
add_underEmptyKey(query, variables, promise) ==
    LET key == getVariablesKey(EmptyObject)
        map == MapOf(queries, query)
        newMap == [k \in DOMAIN map \cup {key} |->
                      IF k = key THEN promise ELSE map[k]]
    IN [q \in DOMAIN queries \cup {query} |->
           IF q = query THEN newMap ELSE queries[q]]

\* add that starts from a new map whatever the query already has.
add_newMap(query, variables, promise) ==
    LET key == getVariablesKey(variables)
    IN [q \in DOMAIN queries \cup {query} |->
           IF q = query THEN [k \in {key} |-> promise] ELSE queries[q]]

\* SuspenseCache.add, the table part: map.set(variablesKey, entry) and
\* this.queries.set(query, map). The entry is named by the promise it holds.
add(query, variables, promise) ==
    LET key == getVariablesKey(variables)
        map == MapOf(queries, query)
        newMap == [k \in DOMAIN map \cup {key} |->
                      IF k = key THEN promise ELSE map[k]]
    IN [q \in DOMAIN queries \cup {query} |->
           IF q = query THEN newMap ELSE queries[q]]

\* SuspenseCache.add, the entry object it builds.
newEntry(promise, observable) ==
    [observable |-> observable, fulfilled |-> FALSE, promise |-> promise]

NoEntry == [observable |-> NoObservable, fulfilled |-> FALSE, promise |-> NoBox]

\* SuspenseCache.add, the promise part: promise.status = pending, and the
\* .then/.catch/.finally chain is attached (its first reaction is due).
decorate(p) == [p EXCEPT !.status = "pending", !.pc = "then"]

\* A .then callback that records the ObservableQuery and not the result.
thenHandler_noValue(p, result, observable) ==
    [p EXCEPT !.observable = observable]

\* The .then callback: promise.value = result; promise.observable = observable.
thenHandler(p, result, observable) ==
    [p EXCEPT !.value = result, !.observable = observable]

\* The .catch callback: promise.status = rejected (the error is dropped).
catchHandler(p) == [p EXCEPT !.status = "rejected"]

\* A .finally callback that only flags the entry.
finallyHandler_noStatus(p) == p

\* The .finally callback, promise part: promise.status = fulfilled.
finallyHandler(p) == [p EXCEPT !.status = "fulfilled"]

\* A .finally callback that leaves the entry as it is.
finallyEntry_noFlag(e) == e

\* The .finally callback, entry part: entry.fulfilled = true.
finallyEntry(e) == [e EXCEPT !.fulfilled = TRUE]

\* remove that leaves the map of a query in the table when it empties it.
remove_keepEmptyMap(query, variables, observed) ==
    IF query \notin DOMAIN queries THEN queries
    ELSE LET map == queries[query]
             key == getVariablesKey(variables)
             deleted == key \in DOMAIN map /\ ~observed
             newMap == IF deleted
                       THEN [k \in DOMAIN map \ {key} |-> map[k]]
                       ELSE map
         IN [queries EXCEPT ![query] = newMap]

\* remove that tests map.size before it deletes the key.
remove_sizeTestFirst(query, variables, observed) ==
    IF query \notin DOMAIN queries THEN queries
    ELSE LET map == queries[query]
             key == getVariablesKey(variables)
             deleted == key \in DOMAIN map /\ ~observed
             newMap == IF deleted
                       THEN [k \in DOMAIN map \ {key} |-> map[k]]
                       ELSE map
         IN IF DOMAIN map = {}
            THEN [q \in DOMAIN queries \ {query} |-> queries[q]]
            ELSE [queries EXCEPT ![query] = newMap]

\* remove that does not ask the ObservableQuery whether it has observers.
remove_ignoreObservers(query, variables, observed) ==
    IF query \notin DOMAIN queries THEN queries
    ELSE LET map == queries[query]
             key == getVariablesKey(variables)
             newMap == [k \in DOMAIN map \ {key} |-> map[k]]
         IN IF DOMAIN newMap = {}
            THEN [q \in DOMAIN queries \ {query} |-> queries[q]]
            ELSE [queries EXCEPT ![query] = newMap]

\* SuspenseCache.remove. observed is what entry.observable.hasObservers()
\* answers; the call is made only when the entry exists.
remove(query, variables, observed) ==
    IF query \notin DOMAIN queries THEN queries
    ELSE LET map == queries[query]
             key == getVariablesKey(variables)
             deleted == key \in DOMAIN map /\ ~observed
             newMap == IF deleted
                       THEN [k \in DOMAIN map \ {key} |-> map[k]]
                       ELSE map
         IN IF DOMAIN newMap = {}
            THEN [q \in DOMAIN queries \ {query} |-> queries[q]]
            ELSE [queries EXCEPT ![query] = newMap]

\* ------------------------------------------------------------- promises
\* A promise no ObservableQuery has created yet.
NoPromise ==
    [work |-> "none", outcome |-> Undefined, status |-> Undefined,
     value |-> Undefined, reason |-> Undefined, observable |-> NoObservable,
     pc |-> "none", chain |-> "pending"]

\* The promise reobserve / refetch / fetchMore return: its work is running.
newPromise == [NoPromise EXCEPT !.work = "running"]

\* useReadQuery(promise) of useBackgroundQuery.ts: what the call does.
\* thrown = "promise" throws the promise itself, thrown = "reason" throws
\* promise.reason, thrown = "no" returns payload.
useReadQuery(b) ==
    LET p == promises[b]
    IN IF p.status = "pending"
       THEN [thrown |-> "promise", promise |-> b, payload |-> Undefined]
       ELSE IF p.status = "fulfilled"
       THEN [thrown |-> "no", promise |-> NoBox, payload |-> p.value]
       ELSE IF p.status = "rejected"
       THEN [thrown |-> "reason", promise |-> NoBox, payload |-> p.reason]
       ELSE [thrown |-> "no", promise |-> NoBox, payload |-> Undefined]


\* useReadQuery(promise) of the hook that reads through
\* useObservableQueryResult: it throws on pending and on rejected, and
\* otherwise calls useObservableQueryResult(promise.observable); observable
\* is the argument of that call.
useReadQueryObservable(b) ==
    LET p == promises[b]
    IN IF p.status = "pending"
       THEN [thrown |-> "promise", observable |-> NoObservable]
       ELSE IF p.status = "rejected"
       THEN [thrown |-> "reason", observable |-> NoObservable]
       ELSE [thrown |-> "no", observable |-> p.observable]


\* ----------------------------------------------------------------- hook
\* useWatchQueryOptions: variables: compact({ ...variables }).
watchQueryVariables(raw) == compact(Obj(raw.props))

\* client.watchQuery: a new ObservableQuery per call; a component calls it
\* at most once (useState), so the object is named after the component.
watchQuery(c) == IF c = "c1" THEN "O1" ELSE "O2"

\* The value `cacheEntry` holds when the useState initializer reads it: the
\* assignment `let cacheEntry = suspenseCache.lookup(...)` has not run yet.
cacheEntryInInitializer == NoBox

\* The useState initializer: cacheEntry?.observable || client.watchQuery(...).
initialObservable(c, cacheEntry) ==
    IF cacheEntry # NoBox THEN entries[cacheEntry].observable ELSE watchQuery(c)

\* mounted, observable: the useState cell. memoQuery, memoVariables,
\* memoPromise: what the useMemo result (dependencies [observable, promise])
\* closes over; memoPromise is the promise the hook returns. Ghost fields:
\* firstBox and replaces are the initial-fetch promise of the key and the
\* number of refetch/fetchMore adds on the key at the component's last render.
NoHook ==
    [mounted |-> FALSE, threw |-> FALSE, observable |-> NoObservable,
     memoQuery |-> Undefined, memoVariables |-> EmptyObject,
     memoPromise |-> NoBox, firstBox |-> NoBox, replaces |-> 0]

\* A call that has just returned: refetch / fetchMore of a component with the
\* promise it returned, add or remove with its arguments (variables by their
\* key) and the answer hasObservers() had for remove, or an emission of the
\* ObservableQuery with the forceUpdate calls each component received.
NoCall ==
    [op |-> "none", consumer |-> Undefined, returned |-> NoBox,
     query |-> Undefined, key |-> <<>>, observed |-> FALSE,
     forceUpdates |-> [c \in Consumers |-> 0]]

\* ----------------------------------------- useObservableQueryResult
\* A data object: its identity and its content. Two objects with the same
\* content are deep-equal.
Data(obj, content) == [obj |-> obj, content |-> content]

\* An ApolloQueryResult.
QueryResult(loading, networkStatus, data) ==
    [loading |-> loading, networkStatus |-> networkStatus, data |-> data]

\* The results the ObservableQuery goes through.
QueryResults ==
    { QueryResult(TRUE, "loading", Data("d0", "none")),
      QueryResult(FALSE, "ready", Data("d1", "x")),
      QueryResult(FALSE, "ready", Data("d2", "x")),
      QueryResult(FALSE, "ready", Data("d3", "y")) }

\* resultRef.current before the first render.
NoResult == QueryResult(FALSE, Undefined, Data(Undefined, Undefined))

\* equal(a, b) of @wry/equality: deep equality.
equal(a, b) == a.content = b.content

\* handleUpdate without the isMountedRef test.
handleUpdate_unguarded(previousResult, result, isMounted) ==
    IF /\ previousResult.loading = result.loading
       /\ previousResult.networkStatus = result.networkStatus
       /\ equal(previousResult.data, result.data)
    THEN [resultRef |-> previousResult, forceUpdate |-> FALSE]
    ELSE [resultRef |-> result, forceUpdate |-> TRUE]

\* handleUpdate that recalls the component on every emission.
handleUpdate_always(previousResult, result, isMounted) ==
    [resultRef |-> result, forceUpdate |-> isMounted]

\* handleUpdate of useObservableQueryResult, for a component whose
\* resultRef.current is previousResult and isMountedRef.current is isMounted,
\* when observable.getCurrentResult() is result: the new resultRef.current and
\* whether forceUpdate is called.
handleUpdate(previousResult, result, isMounted) ==
    IF /\ previousResult.loading = result.loading
       /\ previousResult.networkStatus = result.networkStatus
       /\ equal(previousResult.data, result.data)
    THEN [resultRef |-> previousResult, forceUpdate |-> FALSE]
    ELSE [resultRef |-> result, forceUpdate |-> isMounted]

\* The subscribe calls: component and number of the call.
SubscribeCalls == Consumers \X (1..MaxSubscribes)

\* An unsubscribe function that unsubscribes the latest subscription of its
\* component.
subscriptionOf_latest(c, n) == <<c, subscribes[c]>>

\* The subscription the unsubscribe function returned by the n-th subscribe
\* call of component c closes over.
subscriptionOf(c, n) == <<c, n>>

\* subscription.unsubscribe() of zen-observable: the observer leaves the
\* ObservableQuery unless the subscription is closed already.
unsubscribe(registered, subscription) ==
    IF subscription \in registered THEN registered \ {subscription}
    ELSE registered

NotSuperseded == [by |-> "none", box |-> NoBox]

QK == Queries \X Keys

\* ------------------------------------------------- QuerySubscription
Subs == 1..MaxSubs

\* A QuerySubscription: refCount; internal, its own listener on its
\* ObservableQuery, held from construction until refCount reaches zero;
\* external, the components subscribed to its ObservableQuery. Ghost fields:
\* the acquire and dispose calls made on it so far.
NoSubscription ==
    [refCount |-> 0, internal |-> FALSE, external |-> {},
     acquires |-> 0, disposes |-> 0]

\* new QuerySubscription(observable): it subscribes its internal listener.
NewSubscription == [NoSubscription EXCEPT !.internal = TRUE]

\* QuerySubscription.acquire(): increments refCount.
acquire(sub) ==
    [sub EXCEPT !.refCount = @ + 1, !.acquires = @ + 1]

\* QuerySubscription.dispose(): decrements refCount; when it reaches zero the
\* internal listener is unsubscribed.
dispose(sub) ==
    [sub EXCEPT !.refCount = @ - 1,
                !.internal = IF sub.refCount - 1 = 0 THEN FALSE ELSE @,
                !.disposes = @ + 1]

\* observable.hasObservers() of the ObservableQuery of a QuerySubscription.
hasObservers(sub) == sub.internal \/ sub.external # {}

\* ---------------------------------------- the ObservableQuery's fetches
\* What the options passed to the hook say about fetchOnFirstSubscribe: the
\* hook spreads every option it does not name into the WatchQueryOptions.
\* The option is absent, true or false.
UserOptions ==
    { [fetchOnFirstSubscribe |-> f] : f \in {Undefined, "true", "false"} }

\* useWatchQueryOptions that lets the caller's options have the last word.
useWatchQueryOptions_optionsLast(options) ==
    [fetchOnFirstSubscribe |->
        IF options.fetchOnFirstSubscribe = Undefined THEN "false"
        ELSE options.fetchOnFirstSubscribe]

\* useWatchQueryOptions: { ...watchQueryOptions, ..., fetchOnFirstSubscribe:
\* false, ... }; the property written after the spread wins.
useWatchQueryOptions(options) ==
    [options EXCEPT !.fetchOnFirstSubscribe = "false"]

\* ObservableQuery: whether a subscribe call starts a fetch (reobserve). It
\* does on the first subscribe unless fetchOnFirstSubscribe is false.
fetchesOnSubscribe(options, first) ==
    first /\ options.fetchOnFirstSubscribe # "false"

\* The promise of a fetch: none before the first fetch, then running,
\* settled with a result, or cancelled.
NoFetch == [state |-> "none", value |-> NoResult]
RunningFetch == [state |-> "running", value |-> NoResult]

\* ObservableQuery: an observer has left and registered are the ones that
\* remain. With no observer left the ObservableQuery tears down and cancels
\* the fetch that is in flight.
tearDown(f, registered) ==
    IF registered = {} /\ f.state = "running"
    THEN [f EXCEPT !.state = "cancelled"]
    ELSE f

FetchInit ==
    /\ watchOptions \in { useWatchQueryOptions(o) : o \in UserOptions }
    /\ fetch = NoFetch
    /\ fetches = 0

ListenInit ==
    /\ current = QueryResult(TRUE, "loading", Data("d0", "none"))
    /\ observers = {}
    /\ resultRef = [c \in Consumers |-> NoResult]
    /\ isMountedRef = [c \in Consumers |-> FALSE]
    /\ subscribes = [c \in Consumers |-> 0]
    /\ unsubscribes = [x \in SubscribeCalls |-> "never"]

\* A call of the hook that is not in progress: at = "idle", with the promise
\* its last call returned. at = "missed" is a call whose lookup found no
\* entry and whose add has not run yet; query and variables are its locals.
NoPosition ==
    [at |-> "idle", query |-> Undefined, variables |-> EmptyObject,
     promise |-> NoBox]

\* No QuerySubscription: what getSubscriptionFromPromise returns for a
\* promise the cache does not know (undefined).
NoSub == 0

\* A result a QuerySubscription has received after the one its promise
\* resolved with.
LaterResult(s) == "L" \o ToString(s)

\* A component that has not called useReadQuery.
NoRead ==
    [promise |-> NoBox, thrown |-> "none", payload |-> Undefined,
     listener |-> "none", subscription |-> NoSub]

ReadInit ==
    /\ promiseOf = [s \in Subs |-> NoBox]
    /\ promiseOwner = [b \in Boxes |-> NoSub]
    /\ latestResult = [s \in Subs |-> Undefined]
    /\ reads = [c \in Consumers |-> NoRead]

\* The add / lookup pair has not been asked for.
NoKeyArgs == [a |-> UndefinedVariables, b |-> UndefinedVariables,
              via |-> "none", next |-> "none"]

\* The variables objects a caller can write: undefined, or an object built by
\* writing up to MaxProps properties, each with a value or with undefined (a
\* name written twice keeps its last value).
PropLists ==
    UNION { [1..n -> { <<SortedNames[i], v>> :
                          i \in 1..Len(SortedNames),
                          v \in {"1", "2", Undefined} }] : n \in 0..MaxProps }

ArgumentMappings == { Obj(p) : p \in PropLists } \cup {UndefinedVariables}

\* Two variables objects a and b; the entry is added under a and looked up
\* under b, both by a caller of the cache or both through the hook, which
\* passes the variables through useWatchQueryOptions first.
KeyInit ==
    /\ keyArgs \in { [a |-> a, b |-> b, via |-> via, next |-> "add"] :
                        a \in ArgumentMappings, b \in ArgumentMappings,
                        via \in {"cache", "hook"} }
    /\ keyFound = "unknown"

InitButKeys ==
    /\ letSemantics \in LetSemantics
    /\ queries = [q \in {} |-> [k \in {} |-> NoBox]]
    /\ entries = [b \in Boxes |-> NoEntry]
    /\ promises = [b \in Boxes |-> NoPromise]
    /\ nextBox = 1
    /\ hooks = [c \in Consumers |-> NoHook]
    /\ firstBox = [x \in QK |-> NoBox]
    /\ replaces = [x \in QK |-> 0]
    /\ lastCall = NoCall
    /\ superseded = [b \in Boxes |-> NotSuperseded]
    /\ subscriptions = [s \in Subs |-> NoSubscription]
    /\ nextSub = 1
    /\ tracked = [c \in Consumers |-> {}]
    /\ attached = [c \in Consumers |-> FALSE]
    /\ cleanups = [c \in Consumers |-> 0]
    /\ ListenInit
    /\ FetchInit
    /\ position = [c \in Consumers |-> NoPosition]
    /\ ReadInit

Init ==
    /\ InitButKeys
    /\ keyArgs = NoKeyArgs
    /\ keyFound = "unknown"

\* The initial state for the code that does not go through the hook of
\* useBackgroundQuery.ts, on which the build has no effect.
InitOneBuild == Init /\ letSemantics = "var"

\* A reaction of some promise is due. Renders, user calls and the completion
\* of asynchronous work are tasks of the event loop: a task starts only when
\* the microtask queue is empty.
MicrotaskDue ==
    \E b \in Boxes : /\ promises[b].work \in {"resolved", "rejected"}
                     /\ promises[b].pc \in {"then", "catch", "finally"}

\* The object a closure keeps for watchQueryOptions.variables. The order of
\* its properties matters to nothing the closure does with it (add sorts
\* them), so the object is kept with its properties in sorted order.
Kept(variables) == Obj(canonicalStringify(variables))

\* useBackgroundQuery_experimental(query, { variables: raw }) rendered by
\* component c: first render or re-render. A mounted component is rendered
\* again with the query and the variables it was mounted with, its variables
\* object possibly rebuilt with the properties in another order.
Render(c, query, raw) ==
    /\ ~MicrotaskDue
    /\ ~hooks[c].threw
    /\ hooks[c].mounted \/ letSemantics = "var"
    /\ hooks[c].mounted =>
          /\ query = hooks[c].memoQuery
          /\ Kept(watchQueryVariables(raw)) = hooks[c].memoVariables
    /\ LET variables == watchQueryVariables(raw)
           key == getVariablesKey(variables)
           first == ~hooks[c].mounted
           observable == IF first
                         THEN initialObservable(c, cacheEntryInInitializer)
                         ELSE hooks[c].observable
           found == lookup(query, variables)
           miss == found = NoBox
           promise == IF miss THEN nextBox ELSE entries[found].promise
           init == IF miss /\ firstBox[<<query, key>>] = NoBox
                   THEN promise ELSE firstBox[<<query, key>>]
           stale == ~first /\ promise = hooks[c].memoPromise
       IN /\ miss => nextBox <= MaxBoxes
          /\ queries' = IF miss THEN add(query, variables, promise) ELSE queries
          /\ entries' = IF miss
                        THEN [entries EXCEPT ![promise] = newEntry(promise, observable)]
                        ELSE entries
          /\ promises' = IF miss
                         THEN [promises EXCEPT ![promise] = decorate(newPromise)]
                         ELSE promises
          /\ nextBox' = IF miss THEN nextBox + 1 ELSE nextBox
          /\ firstBox' = [firstBox EXCEPT ![<<query, key>>] = init]
          /\ hooks' = [hooks EXCEPT ![c] =
                 [mounted |-> TRUE, threw |-> FALSE,
                  observable |-> observable,
                  memoQuery |-> IF stale THEN hooks[c].memoQuery ELSE query,
                  memoVariables |-> IF stale THEN hooks[c].memoVariables
                                    ELSE Kept(variables),
                  memoPromise |-> promise,
                  firstBox |-> init,
                  replaces |-> replaces[<<query, key>>]]]
          /\ lastCall' = NoCall
    /\ UNCHANGED << subVars, listenVars, fetchVars, readVars, keyVars, stepVars,
                    letSemantics, replaces, superseded >>

\* The first render of a component in a build that keeps `let`: the useState
\* initializer reads cacheEntry in its temporal dead zone and the render
\* throws a ReferenceError before the cache is touched.
RenderThrows(c) ==
    /\ ~MicrotaskDue
    /\ letSemantics = "tdz"
    /\ ~hooks[c].mounted
    /\ ~hooks[c].threw
    /\ hooks' = [hooks EXCEPT ![c].threw = TRUE]
    /\ lastCall' = NoCall
    /\ UNCHANGED << subVars, listenVars, fetchVars, readVars, keyVars, stepVars,
                    letSemantics, queries, entries, promises, nextBox,
                    firstBox, replaces, superseded >>

\* The body shared by the fetchMore and refetch closures of the hook's result:
\* the ObservableQuery returns a new promise, which is added under the query
\* and variables the closure captured, and returned.
Replace(c, op) ==
    /\ ~MicrotaskDue
    /\ hooks[c].mounted
    /\ nextBox <= MaxBoxes
    /\ LET query == hooks[c].memoQuery
           variables == hooks[c].memoVariables
           key == getVariablesKey(variables)
           observable == hooks[c].observable
           promise == nextBox
           old == lookup(query, variables)
       IN /\ superseded' = IF /\ op = "refetch"
                              /\ old # NoBox
                              /\ promises[old].status = "pending"
                           THEN [superseded EXCEPT ![old] =
                                   [by |-> op, box |-> promise]]
                           ELSE superseded
          /\ queries' = add(query, variables, promise)
          /\ entries' = [entries EXCEPT ![promise] = newEntry(promise, observable)]
          /\ promises' = [promises EXCEPT ![promise] = decorate(newPromise)]
          /\ nextBox' = nextBox + 1
          /\ replaces' = [replaces EXCEPT ![<<query, key>>] = @ + 1]
          /\ lastCall' = [NoCall EXCEPT !.op = op, !.consumer = c,
                                        !.returned = promise]
    /\ UNCHANGED << subVars, listenVars, fetchVars, readVars, keyVars, stepVars,
                    letSemantics, hooks, firstBox >>

\* result.fetchMore(options)
FetchMore(c) == Replace(c, "fetchMore")

\* result.refetch(variables)
Refetch(c) == Replace(c, "refetch")

\* The asynchronous work behind promise b ends: it resolves with a result or
\* rejects with an error.
Settle(b, kind, payload) ==
    /\ ~MicrotaskDue
    /\ promises[b].work = "running"
    /\ promises' = [promises EXCEPT ![b].work = kind, ![b].outcome = payload]
    /\ lastCall' = NoCall
    /\ UNCHANGED << subVars, listenVars, fetchVars, readVars, keyVars, stepVars,
                    letSemantics, queries, entries, nextBox, hooks, firstBox,
                    replaces, superseded >>

Resolve(b) == Settle(b, "resolved", ResultOf(b))

Reject(b) == \E e \in Errors : Settle(b, "rejected", e)

\* First microtask of the chain: the .then reaction. A resolved promise runs
\* the callback; a rejected one passes its rejection on.
ThenReaction(b) ==
    /\ promises[b].pc = "then"
    /\ promises[b].work \in {"resolved", "rejected"}
    /\ promises' = [promises EXCEPT ![b] =
           IF promises[b].work = "resolved"
           THEN [thenHandler(promises[b], promises[b].outcome,
                             entries[b].observable)
                    EXCEPT !.pc = "catch", !.chain = "fulfilled"]
           ELSE [promises[b] EXCEPT !.pc = "catch", !.chain = "rejected"]]
    /\ lastCall' = NoCall
    /\ UNCHANGED << subVars, listenVars, fetchVars, readVars, keyVars, stepVars,
                    letSemantics, queries, entries, nextBox, hooks, firstBox,
                    replaces, superseded >>

\* A .catch reaction whose callback throws the error again.
CatchReaction_rethrows(b) ==
    /\ promises[b].pc = "catch"
    /\ promises' = [promises EXCEPT ![b] =
           IF promises[b].chain = "rejected"
           THEN [catchHandler(promises[b]) EXCEPT !.pc = "finally"]
           ELSE [promises[b] EXCEPT !.pc = "finally"]]
    /\ lastCall' = NoCall
    /\ UNCHANGED << subVars, listenVars, fetchVars, readVars, keyVars, stepVars,
                    letSemantics, queries, entries, nextBox, hooks, firstBox,
                    replaces, superseded >>

\* Second microtask: the .catch reaction runs its callback on a rejection and
\* passes a fulfilment on.
CatchReaction(b) ==
    /\ promises[b].pc = "catch"
    /\ promises' = [promises EXCEPT ![b] =
           IF promises[b].chain = "rejected"
           THEN [catchHandler(promises[b])
                    EXCEPT !.pc = "finally", !.chain = "fulfilled"]
           ELSE [promises[b] EXCEPT !.pc = "finally"]]
    /\ lastCall' = NoCall
    /\ UNCHANGED << subVars, listenVars, fetchVars, readVars, keyVars, stepVars,
                    letSemantics, queries, entries, nextBox, hooks, firstBox,
                    replaces, superseded >>

\* A .finally reaction whose callback flags every entry of the promise's
\* ObservableQuery (the entry found again through the cache, not the one
\* the callback closed over).
FinallyReaction_flagsByObservable(b) ==
    /\ promises[b].pc = "finally"
    /\ promises' = [promises EXCEPT ![b] =
           [finallyHandler(promises[b]) EXCEPT !.pc = "done"]]
    /\ entries' = [x \in Boxes |->
           IF entries[x].observable = entries[b].observable
           THEN finallyEntry(entries[x]) ELSE entries[x]]
    /\ lastCall' = NoCall
    /\ UNCHANGED << subVars, listenVars, fetchVars, readVars, keyVars, stepVars,
                    letSemantics, queries, nextBox, hooks, firstBox,
                    replaces, superseded >>

\* Third microtask: the .finally reaction runs its callback whatever the
\* outcome and keeps the outcome of the chain.
FinallyReaction(b) ==
    /\ promises[b].pc = "finally"
    /\ promises' = [promises EXCEPT ![b] =
           [finallyHandler(promises[b]) EXCEPT !.pc = "done"]]
    /\ entries' = [entries EXCEPT ![b] = finallyEntry(entries[b])]
    /\ lastCall' = NoCall
    /\ UNCHANGED << subVars, listenVars, fetchVars, readVars, keyVars, stepVars,
                    letSemantics, queries, nextBox, hooks, firstBox,
                    replaces, superseded >>

\* suspenseCache.remove(query, raw); observed is the answer of the entry's
\* ObservableQuery to hasObservers(), an object outside the cache.
Remove(query, raw, observed) ==
    LET key == getVariablesKey(raw)
        deleted == lookup(query, raw) # NoBox
                   /\ EntryAt(remove(query, raw, observed), query, key) = NoBox
    IN /\ ~MicrotaskDue
       /\ queries' = remove(query, raw, observed)
       /\ firstBox' = IF deleted THEN [firstBox EXCEPT ![<<query, key>>] = NoBox]
                      ELSE firstBox
       /\ replaces' = IF deleted THEN [replaces EXCEPT ![<<query, key>>] = 0]
                      ELSE replaces
       /\ lastCall' = NoCall
       /\ UNCHANGED << subVars, listenVars, fetchVars, readVars,
                       keyVars, stepVars,
                       letSemantics, entries, promises, nextBox, hooks,
                       superseded >>

\* ------------------------------------------------ the cache called directly
\* suspenseCache.add(query, raw, { promise, observable }) called by a user of
\* the class with a promise the ObservableQuery has just created; the call
\* is kept in lastCall.
CallAdd(query, raw, observable) ==
    /\ ~MicrotaskDue
    /\ nextBox <= MaxBoxes
    /\ LET promise == nextBox
       IN /\ queries' = add(query, raw, promise)
          /\ entries' = [entries EXCEPT ![promise] = newEntry(promise, observable)]
          /\ promises' = [promises EXCEPT ![promise] = decorate(newPromise)]
          /\ nextBox' = nextBox + 1
          /\ lastCall' = [NoCall EXCEPT !.op = "add", !.query = query,
                                        !.key = getVariablesKey(raw),
                                        !.returned = promise]
    /\ UNCHANGED << subVars, listenVars, fetchVars, readVars, keyVars, stepVars,
                    letSemantics, hooks, firstBox, replaces, superseded >>

\* suspenseCache.remove(query, raw) called by a user of the class; the call
\* is kept in lastCall. hasObservers() is asked only when the entry exists.
CallRemove(query, raw, observed) ==
    /\ ~MicrotaskDue
    /\ lookup(query, raw) = NoBox => ~observed
    /\ queries' = remove(query, raw, observed)
    /\ lastCall' = [NoCall EXCEPT !.op = "remove", !.query = query,
                                  !.key = getVariablesKey(raw),
                                  !.observed = observed]
    /\ UNCHANGED << subVars, listenVars, fetchVars, readVars, keyVars, stepVars,
                    letSemantics, entries, promises, nextBox, hooks,
                    firstBox, replaces, superseded >>

Next ==
    \/ \E c \in Consumers, q \in HookQueries, raw \in RawVariables :
          Render(c, q, raw)
    \/ \E c \in Consumers : RenderThrows(c)
    \/ \E c \in Consumers : FetchMore(c)
    \/ \E c \in Consumers : Refetch(c)
    \/ \E b \in Boxes : Resolve(b)
    \/ \E b \in Boxes : Reject(b)
    \/ \E b \in Boxes : ThenReaction(b)
    \/ \E b \in Boxes : CatchReaction(b)
    \/ \E b \in Boxes : FinallyReaction(b)
    \/ \E q \in Queries, raw \in RawVariables, observed \in BOOLEAN :
          Remove(q, raw, observed)

Spec == Init /\ [][Next]_vars

\* The microtask queue is drained: a reaction that is due runs.
Fairness ==
    \A b \in Boxes : /\ WF_vars(ThenReaction(b))
                     /\ WF_vars(CatchReaction(b))
                     /\ WF_vars(FinallyReaction(b))

FairSpec == Spec /\ Fairness

\* ------------------------------- the hook built on QuerySubscription
\* What the actions of this hook leave alone.
hookVars == << letSemantics, entries, promises, nextBox, hooks, firstBox,
               replaces, superseded >>

\* useBackgroundQuery_experimental(query, { variables: raw }) of the hook
\* built on QuerySubscription, rendered by component c: getSubscription
\* returns the key's QuerySubscription, created on a miss, and acquires it;
\* useTrackedSubscriptions adds it to the component's set.
SubRender(c, query, raw) ==
    LET variables == watchQueryVariables(raw)
        found == lookup(query, variables)
        miss == found = NoBox
        s == IF miss THEN nextSub ELSE found
    IN /\ miss => nextSub <= MaxSubs
       /\ ~miss => subscriptions[s].acquires < MaxAcquires
       /\ subscriptions' = [subscriptions EXCEPT ![s] =
              acquire(IF miss THEN NewSubscription ELSE subscriptions[s])]
       /\ queries' = IF miss THEN add(query, variables, s) ELSE queries
       /\ nextSub' = IF miss THEN nextSub + 1 ELSE nextSub
       /\ tracked' = [tracked EXCEPT ![c] = @ \cup {s}]
       /\ attached' = [attached EXCEPT ![c] = TRUE]
       /\ lastCall' = NoCall
       /\ UNCHANGED << hookVars, listenVars, fetchVars, readVars,
                       keyVars, stepVars,
                       cleanups >>

\* The dispose function useTrackedSubscriptions returned to component c is
\* called (the cleanup of its effect): every tracked QuerySubscription is
\* disposed; the set is left as it is.
SubCleanup(c) ==
    /\ tracked[c] # {}
    /\ cleanups[c] < MaxCleanups
    /\ subscriptions' = [s \in Subs |->
           IF s \in tracked[c] THEN dispose(subscriptions[s])
           ELSE subscriptions[s]]
    /\ attached' = [attached EXCEPT ![c] = FALSE]
    /\ cleanups' = [cleanups EXCEPT ![c] = @ + 1]
    /\ lastCall' = NoCall
    /\ UNCHANGED << hookVars, listenVars, fetchVars, readVars,
                    keyVars, stepVars,
                    queries, nextSub, tracked >>

\* Component c subscribes to the ObservableQuery the hook returned to it.
SubSubscribe(c, s) ==
    /\ attached[c]
    /\ s \in tracked[c]
    /\ c \notin subscriptions[s].external
    /\ subscriptions' = [subscriptions EXCEPT ![s].external = @ \cup {c}]
    /\ lastCall' = NoCall
    /\ UNCHANGED << hookVars, listenVars, fetchVars, readVars,
                    keyVars, stepVars,
                    queries, nextSub, tracked, attached, cleanups >>

\* Component c unsubscribes from the ObservableQuery.
SubUnsubscribe(c, s) ==
    /\ c \in subscriptions[s].external
    /\ subscriptions' = [subscriptions EXCEPT ![s].external = @ \ {c}]
    /\ lastCall' = NoCall
    /\ UNCHANGED << hookVars, listenVars, fetchVars, readVars,
                    keyVars, stepVars,
                    queries, nextSub, tracked, attached, cleanups >>

\* suspenseCache.remove(query, raw): the entry's ObservableQuery is asked
\* hasObservers(); the call is kept in lastCall.
SubRemove(query, raw) ==
    LET found == lookup(query, raw)
        observed == found # NoBox /\ hasObservers(subscriptions[found])
    IN /\ queries' = remove(query, raw, observed)
       /\ lastCall' = [NoCall EXCEPT !.op = "remove", !.query = query,
                                     !.key = getVariablesKey(raw),
                                     !.observed = observed]
       /\ UNCHANGED << hookVars, listenVars, fetchVars, readVars,
                       keyVars, stepVars,
                       subVars >>

SubNext ==
    \/ \E c \in Consumers, q \in HookQueries, raw \in RawVariables :
          SubRender(c, q, raw)
    \/ \E c \in Consumers : SubCleanup(c)
    \/ \E c \in Consumers, s \in Subs : SubSubscribe(c, s)
    \/ \E c \in Consumers, s \in Subs : SubUnsubscribe(c, s)
    \/ \E q \in HookQueries, raw \in RawVariables : SubRemove(q, raw)

SubSpec == InitOneBuild /\ [][SubNext]_vars

\* ----------------------------------------- useObservableQueryResult
\* What the actions of useObservableQueryResult leave alone.
cacheVars == << letSemantics, queries, entries, promises, nextBox, hooks,
                firstBox, replaces, superseded >>

\* Observers that stay registered whatever is unsubscribed.
Listening_everSubscribed == { c \in Consumers : subscribes[c] > 0 }

\* The components whose observer is registered on the ObservableQuery.
Listening == { x[1] : x \in observers }

\* First render of useObservableQueryResult(observable) by component c:
\* resultRef.current = observable.getCurrentResult().
ListenRender(c) ==
    /\ resultRef[c] = NoResult
    /\ resultRef' = [resultRef EXCEPT ![c] = current]
    /\ lastCall' = NoCall
    /\ UNCHANGED << cacheVars, subVars, readVars,
                    keyVars, stepVars, fetchVars, current,
                    observers, isMountedRef, subscribes, unsubscribes >>

\* The layout effect runs (the component mounts or leaves suspension):
\* isMountedRef.current = true.
LayoutEffect(c) ==
    /\ resultRef[c] # NoResult
    /\ ~isMountedRef[c]
    /\ isMountedRef' = [isMountedRef EXCEPT ![c] = TRUE]
    /\ lastCall' = NoCall
    /\ UNCHANGED << cacheVars, subVars, readVars,
                    keyVars, stepVars, fetchVars, current,
                    observers, resultRef, subscribes, unsubscribes >>

\* The cleanup of the layout effect runs (the component suspends or
\* unmounts): isMountedRef.current = false.
LayoutCleanup(c) ==
    /\ isMountedRef[c]
    /\ isMountedRef' = [isMountedRef EXCEPT ![c] = FALSE]
    /\ lastCall' = NoCall
    /\ UNCHANGED << cacheVars, subVars, readVars,
                    keyVars, stepVars, fetchVars, current,
                    observers, resultRef, subscribes, unsubscribes >>

\* useSyncExternalStore calls the subscribe callback of a mounted component
\* that has no registered observer: observable.subscribe({ next, error }).
\* The ObservableQuery starts a fetch if its options make it fetch on the
\* first subscribe.
Subscribe(c) ==
    LET first == \A d \in Consumers : subscribes[d] = 0
        starts == fetchesOnSubscribe(watchOptions, first)
    IN /\ isMountedRef[c]
       /\ c \notin Listening
       /\ subscribes[c] < MaxSubscribes
       /\ subscribes' = [subscribes EXCEPT ![c] = @ + 1]
       /\ observers' = observers \cup {<<c, subscribes[c] + 1>>}
       /\ fetch' = IF starts THEN RunningFetch ELSE fetch
       /\ fetches' = IF starts THEN fetches + 1 ELSE fetches
       /\ lastCall' = NoCall
       /\ UNCHANGED << cacheVars, subVars, readVars,
                       keyVars, stepVars, watchOptions,
                       current, resultRef, isMountedRef, unsubscribes >>

\* The unsubscribe function returned by the n-th subscribe call of component
\* c is called: subscription.unsubscribe(). When an observer leaves, the
\* ObservableQuery tears down if it was the last one.
Unsubscribe(c, n) ==
    LET remaining == unsubscribe(observers, subscriptionOf(c, n))
    IN /\ n <= subscribes[c]
       /\ unsubscribes' = [unsubscribes EXCEPT ![<<c, n>>] =
              IF @ = "never" THEN "once" ELSE "again"]
       /\ observers' = remaining
       /\ fetch' = IF remaining # observers THEN tearDown(fetch, remaining)
                   ELSE fetch
       /\ lastCall' = NoCall
       /\ UNCHANGED << cacheVars, subVars, readVars,
                       keyVars, stepVars, watchOptions,
                       fetches, current, resultRef, isMountedRef, subscribes >>

\* The next callback of every registered observer, handleUpdate, is called
\* when the current result of the ObservableQuery has become result. The
\* forceUpdate calls each component received are kept in lastCall.
Deliver(result) ==
    LET handled == [c \in Consumers |->
                      handleUpdate(resultRef[c], result, isMountedRef[c])]
    IN /\ current' = result
       /\ resultRef' = [c \in Consumers |->
              IF c \in Listening THEN handled[c].resultRef ELSE resultRef[c]]
       /\ lastCall' = [NoCall EXCEPT !.op = "emit", !.forceUpdates =
              [c \in Consumers |->
                  IF c \in Listening /\ handled[c].forceUpdate THEN 1 ELSE 0]]
       /\ UNCHANGED << cacheVars, subVars, readVars,
                       keyVars, stepVars, watchOptions,
                       fetches, observers, isMountedRef, subscribes,
                       unsubscribes >>

\* The ObservableQuery emits a result that no fetch of its own brought (the
\* store it watches has changed).
Emit(result) ==
    /\ Deliver(result)
    /\ UNCHANGED fetch

ListenNext ==
    \/ \E c \in Consumers : ListenRender(c)
    \/ \E c \in Consumers : LayoutEffect(c)
    \/ \E c \in Consumers : LayoutCleanup(c)
    \/ \E c \in Consumers : Subscribe(c)
    \/ \E x \in SubscribeCalls : Unsubscribe(x[1], x[2])
    \/ \E r \in QueryResults : Emit(r)

ListenSpec == InitOneBuild /\ [][ListenNext]_vars

\* A read that returns the value the promise settled with (return
\* promise.value).
getSnapshot_promiseValue(c) ==
    IF fetch.state = "settled" THEN fetch.value ELSE resultRef[c]

\* What useReadQuery returns to component c for a promise that is no longer
\* pending: the snapshot of useSyncExternalStore, () => resultRef.current.
getSnapshot(c) == resultRef[c]

\* What the fetch actions leave alone.
listenerVars == << observers, resultRef, isMountedRef, subscribes,
                   unsubscribes >>

\* The hook's first render for a key with no entry calls
\* observable.reobserve({ query, variables }): the initial fetch.
Reobserve ==
    /\ fetch.state = "none"
    /\ fetch' = RunningFetch
    /\ fetches' = fetches + 1
    /\ lastCall' = NoCall
    /\ UNCHANGED << cacheVars, subVars, readVars,
                    keyVars, stepVars, watchOptions,
                    current, listenerVars >>

\* A refetch closure calls observable.refetch(variables): a new promise
\* takes the place of the one before.
ObservableRefetch ==
    /\ fetch.state # "none"
    /\ fetches < MaxFetches
    /\ fetch' = RunningFetch
    /\ fetches' = fetches + 1
    /\ lastCall' = NoCall
    /\ UNCHANGED << cacheVars, subVars, readVars,
                    keyVars, stepVars, watchOptions,
                    current, listenerVars >>

\* The fetch in flight brings result: the ObservableQuery makes it its
\* current result and calls its observers, then the promise resolves with it.
FetchSettles(result) ==
    /\ fetch.state = "running"
    /\ ~result.loading
    /\ Deliver(result)
    /\ fetch' = [state |-> "settled", value |-> result]

FetchNext ==
    \/ \E c \in Consumers : ListenRender(c)
    \/ \E c \in Consumers : LayoutEffect(c)
    \/ \E c \in Consumers : LayoutCleanup(c)
    \/ \E c \in Consumers : Subscribe(c)
    \/ \E x \in SubscribeCalls : Unsubscribe(x[1], x[2])
    \/ \E r \in QueryResults : Emit(r)
    \/ Reobserve
    \/ ObservableRefetch
    \/ \E r \in QueryResults : FetchSettles(r)

FetchSpec == InitOneBuild /\ [][FetchNext]_vars

\* The cache used through its own methods, by any caller.
CacheNext ==
    \/ \E q \in Queries, raw \in RawVariables, o \in Observables :
          CallAdd(q, raw, o)
    \/ \E q \in Queries, raw \in RawVariables, observed \in BOOLEAN :
          CallRemove(q, raw, observed)
    \/ \E b \in Boxes : Resolve(b)
    \/ \E b \in Boxes : Reject(b)
    \/ \E b \in Boxes : ThenReaction(b)
    \/ \E b \in Boxes : CatchReaction(b)
    \/ \E b \in Boxes : FinallyReaction(b)

CacheSpec == InitOneBuild /\ [][CacheNext]_vars

\* ------------------------------------ the render, statement by statement
\* The calls of the hook that have begun and not returned.
Running == { c \in Consumers : position[c].at # "idle" }

\* A scheduler that starts a job while a call of the hook is in progress.
MayStart_anyTime(running) == TRUE

\* Whether another job (a render, a call of remove, the settlement of a
\* fetch, a reaction) may start: the hook has no await and no yield, so a
\* call that has begun runs to its return before any other job starts.
MayStart(running) == running = {}

\* The hook up to `let cacheEntry = suspenseCache.lookup(query, variables)`.
\* A hit goes on to the return in the same step; a miss leaves the call
\* before `suspenseCache.add`.
StepLookup(c, query, raw) ==
    LET variables == watchQueryVariables(raw)
        found == lookup(query, variables)
    IN /\ MayStart(Running)
       /\ ~MicrotaskDue
       /\ position[c].at = "idle"
       /\ found = NoBox => nextBox <= MaxBoxes
       /\ position' = [position EXCEPT ![c] =
              IF found = NoBox
              THEN [at |-> "missed", query |-> query,
                    variables |-> Kept(variables), promise |-> NoBox]
              ELSE [NoPosition EXCEPT !.promise = entries[found].promise]]
       /\ lastCall' = NoCall
       /\ UNCHANGED << subVars, listenVars, fetchVars, readVars,
                       keyVars, letSemantics,
                       queries, entries, promises, nextBox, hooks, firstBox,
                       replaces, superseded >>

\* The rest of a call that missed: suspenseCache.add(query, variables,
\* { promise: observable.reobserve(...), observable }) and the return.
StepAdd(c) ==
    LET promise == nextBox
        observable == initialObservable(c, cacheEntryInInitializer)
    IN /\ position[c].at = "missed"
       /\ queries' = add(position[c].query, position[c].variables, promise)
       /\ entries' = [entries EXCEPT ![promise] = newEntry(promise, observable)]
       /\ promises' = [promises EXCEPT ![promise] = decorate(newPromise)]
       /\ nextBox' = nextBox + 1
       /\ position' = [position EXCEPT ![c] =
              [NoPosition EXCEPT !.promise = promise]]
       /\ lastCall' = NoCall
       /\ UNCHANGED << subVars, listenVars, fetchVars, readVars,
                       keyVars, letSemantics,
                       hooks, firstBox, replaces, superseded >>

\* The other jobs of the event loop.
StepResolve(b) == MayStart(Running) /\ Resolve(b)
StepReject(b) == MayStart(Running) /\ Reject(b)
StepThen(b) == MayStart(Running) /\ ThenReaction(b)
StepCatch(b) == MayStart(Running) /\ CatchReaction(b)
StepFinally(b) == MayStart(Running) /\ FinallyReaction(b)
StepRemove(query, raw, observed) ==
    MayStart(Running) /\ CallRemove(query, raw, observed)

StepNext ==
    \/ \E c \in Consumers, q \in HookQueries, raw \in RawVariables :
          StepLookup(c, q, raw)
    \/ \E c \in Consumers : StepAdd(c)
    \/ \E b \in Boxes : StepResolve(b)
    \/ \E b \in Boxes : StepReject(b)
    \/ \E b \in Boxes : StepThen(b)
    \/ \E b \in Boxes : StepCatch(b)
    \/ \E b \in Boxes : StepFinally(b)
    \/ \E q \in HookQueries, raw \in RawVariables, observed \in BOOLEAN :
          StepRemove(q, raw, observed)

StepSpec == InitOneBuild /\ [][StepNext]_vars

\* ------------------------------------------------ one add, one lookup
\* The variables the cache is called with for the caller's variables.
PassedVariables(raw) ==
    IF keyArgs.via = "hook" THEN watchQueryVariables(raw) ELSE raw

\* suspenseCache.add(query, variables, { promise, observable }) with the
\* first variables object.
KeyAdd ==
    /\ keyArgs.next = "add"
    /\ LET promise == nextBox
       IN /\ queries' = add("Q1", PassedVariables(keyArgs.a), promise)
          /\ entries' = [entries EXCEPT ![promise] = newEntry(promise, "O1")]
          /\ promises' = [promises EXCEPT ![promise] = decorate(newPromise)]
          /\ nextBox' = nextBox + 1
    /\ keyArgs' = [keyArgs EXCEPT !.next = "lookup"]
    /\ lastCall' = NoCall
    /\ UNCHANGED << subVars, listenVars, fetchVars, readVars,
                    stepVars, letSemantics,
                    hooks, firstBox, replaces, superseded, keyFound >>

\* suspenseCache.lookup(query, variables) with the second variables object.
KeyLookup ==
    /\ keyArgs.next = "lookup"
    /\ keyFound' = IF lookup("Q1", PassedVariables(keyArgs.b)) # NoBox
                   THEN "found" ELSE "absent"
    /\ keyArgs' = [keyArgs EXCEPT !.next = "done"]
    /\ lastCall' = NoCall
    /\ UNCHANGED << subVars, listenVars, fetchVars, readVars,
                    stepVars, letSemantics,
                    queries, entries, promises, nextBox, hooks, firstBox,
                    replaces, superseded >>

KeyNext ==
    \/ KeyAdd
    \/ KeyLookup

\* The cache as constructed, and the two variables objects.
InitWithKeys == InitButKeys /\ letSemantics = "var" /\ KeyInit

KeySpec == InitWithKeys /\ [][KeyNext]_vars


\* ------------------------- useReadQuery on a QuerySubscription's promise
\* __use(promise): throws the promise while its work is running, throws the
\* reason when it rejected, returns the result when it resolved.
use(b) ==
    LET p == promises[b]
    IN IF p.work = "running"
       THEN [thrown |-> "promise", payload |-> Undefined]
       ELSE IF p.work = "rejected"
       THEN [thrown |-> "reason", payload |-> p.outcome]
       ELSE [thrown |-> "no", payload |-> p.outcome]

\* suspenseCache.getSubscriptionFromPromise(promise).
getSubscriptionFromPromise(b) == promiseOwner[b]

\* useReadQuery that reaches into the subscription without `?.`.
useReadQuerySubscription_noOptionalChaining(b) ==
    LET result == use(b)
        subscription == getSubscriptionFromPromise(b)
    IN IF result.thrown # "no"
       THEN [NoRead EXCEPT !.promise = b, !.thrown = result.thrown,
                           !.payload = result.payload]
       ELSE IF subscription = NoSub
       THEN [NoRead EXCEPT !.promise = b, !.thrown = "TypeError"]
       ELSE [promise |-> b, thrown |-> "no",
             payload |-> IF latestResult[subscription] # Undefined
                         THEN latestResult[subscription]
                         ELSE result.payload,
             listener |-> "listen", subscription |-> subscription]

\* useReadQuery(promise, suspenseCache) of the hook built on
\* QuerySubscription: result = __use(promise); the store is subscribed to
\* with subscription?.listen or a function that does nothing, and read with
\* () => subscription?.result || result.
useReadQuerySubscription(b) ==
    LET result == use(b)
        subscription == getSubscriptionFromPromise(b)
    IN IF result.thrown # "no"
       THEN [NoRead EXCEPT !.promise = b, !.thrown = result.thrown,
                           !.payload = result.payload]
       ELSE [promise |-> b, thrown |-> "no",
             payload |-> IF /\ subscription # NoSub
                            /\ latestResult[subscription] # Undefined
                         THEN latestResult[subscription]
                         ELSE result.payload,
             listener |-> IF subscription # NoSub THEN "listen" ELSE "noop",
             subscription |-> subscription]

\* What the actions of this section leave alone.
unreadVars == << letSemantics, queries, entries, nextBox, hooks, firstBox,
                 replaces, superseded, subVars, listenVars, fetchVars,
                 keyVars, stepVars >>

\* The promises and QuerySubscriptions created so far.
IssuedBoxes == { b \in Boxes : promises[b].work # "none" }
IssuedSubs == { s \in Subs : promiseOf[s] # NoBox }

\* suspenseCache.getSubscription creates QuerySubscription s, whose
\* construction starts the fetch; the cache registers its promise.
ReadGetSubscription(s, b) ==
    /\ s \notin IssuedSubs
    /\ promises[b].work = "none"
    /\ promises' = [promises EXCEPT ![b] = newPromise]
    /\ promiseOf' = [promiseOf EXCEPT ![s] = b]
    /\ promiseOwner' = [promiseOwner EXCEPT ![b] = s]
    /\ lastCall' = NoCall
    /\ UNCHANGED << unreadVars, latestResult, reads >>

\* A promise of ApolloQueryResult the cache has never been given.
ReadOwnPromise(b) ==
    /\ promises[b].work = "none"
    /\ promises' = [promises EXCEPT ![b] = newPromise]
    /\ lastCall' = NoCall
    /\ UNCHANGED << unreadVars, readVars >>

\* The work behind promise b resolves; the listener of its
\* QuerySubscription, if it has one, records the result.
ReadResolve(b) ==
    /\ promises[b].work = "running"
    /\ promises' = [promises EXCEPT ![b].work = "resolved",
                                    ![b].outcome = ResultOf(b)]
    /\ latestResult' = [s \in Subs |->
           IF promiseOf[s] = b THEN ResultOf(b) ELSE latestResult[s]]
    /\ lastCall' = NoCall
    /\ UNCHANGED << unreadVars, promiseOf, promiseOwner, reads >>

\* The work behind promise b rejects.
ReadReject(b) ==
    /\ promises[b].work = "running"
    /\ \E e \in Errors :
          promises' = [promises EXCEPT ![b].work = "rejected",
                                       ![b].outcome = e]
    /\ lastCall' = NoCall
    /\ UNCHANGED << unreadVars, readVars >>

\* The ObservableQuery of QuerySubscription s emits a later result.
ReadEmit(s) ==
    /\ s \in IssuedSubs
    /\ latestResult[s] \notin {Undefined, LaterResult(s)}
    /\ latestResult' = [latestResult EXCEPT ![s] = LaterResult(s)]
    /\ lastCall' = NoCall
    /\ UNCHANGED << unreadVars, promises, promiseOf, promiseOwner, reads >>

\* The cache lets go of QuerySubscription s: its promise is no longer
\* registered.
ReadForget(s) ==
    /\ \E b \in Boxes : promiseOwner[b] = s
    /\ promiseOwner' = [b \in Boxes |->
           IF promiseOwner[b] = s THEN NoSub ELSE promiseOwner[b]]
    /\ lastCall' = NoCall
    /\ UNCHANGED << unreadVars, promises, promiseOf, latestResult, reads >>

\* Component c calls useReadQuery(promise) with promise b.
ReadCall(c, b) ==
    /\ b \in IssuedBoxes
    /\ reads' = [reads EXCEPT ![c] = useReadQuerySubscription(b)]
    /\ lastCall' = NoCall
    /\ UNCHANGED << unreadVars,
                    promises, promiseOf, promiseOwner, latestResult >>

ReadNext ==
    \/ \E s \in Subs, b \in Boxes : ReadGetSubscription(s, b)
    \/ \E b \in Boxes : ReadOwnPromise(b)
    \/ \E b \in Boxes : ReadResolve(b)
    \/ \E b \in Boxes : ReadReject(b)
    \/ \E s \in Subs : ReadEmit(s)
    \/ \E s \in Subs : ReadForget(s)
    \/ \E c \in Consumers, b \in Boxes : ReadCall(c, b)

ReadSpec == InitOneBuild /\ [][ReadNext]_vars


\* ================================================================ claims
\* Component c has just been rendered (the hook call returned and changed
\* what the component holds).
RenderedBy(c) == hooks'[c] # hooks[c] /\ hooks'[c].mounted

\* The (query, key) of the last request of a component.
RequestKey(h) == <<h.memoQuery, getVariablesKey(h.memoVariables)>>

\* The last request of component d (d may be c itself, before this render)
\* was for the (query, key) component c has just requested, the key's entry
\* has not been removed since, and the initial fetch of the key is still
\* unsettled.
EarlierRequest(c, d) ==
    /\ hooks[d].mounted
    /\ RequestKey(hooks[d]) = RequestKey(hooks'[c])
    /\ firstBox[RequestKey(hooks[d])] # NoBox
    /\ hooks[d].firstBox = firstBox[RequestKey(hooks[d])]
    /\ promises[firstBox[RequestKey(hooks[d])]].work = "running"

\* The request of c returned the promise d holds and issued no fetch.
SameBoxNoFetch(c, d) ==
    /\ hooks'[c].memoPromise = hooks[d].memoPromise
    /\ nextBox' = nextBox

\* C1, as stated: two requests for the same query and canonical key, made
\* before the initial fetch settles and with no remove in between, return the
\* same promise, and the second one issues no fetch.
C1_SameBoxWithoutRemove ==
    [][\A c, d \in Consumers :
          RenderedBy(c) /\ EarlierRequest(c, d) => SameBoxNoFetch(c, d)]_vars

\* C1, amended: the same, when also no refetch and no fetchMore was issued
\* on the key between the two requests.
C1_SameBoxWithoutRemoveOrReplace ==
    [][\A c, d \in Consumers :
          /\ RenderedBy(c)
          /\ EarlierRequest(c, d)
          /\ hooks[d].replaces = replaces[RequestKey(hooks[d])]
          => SameBoxNoFetch(c, d)]_vars

\* Two components hold the same promise for the same key while the initial
\* fetch, the only one issued, is unsettled.
C1_Witness ==
    /\ hooks["c1"].mounted /\ hooks["c2"].mounted
    /\ RequestKey(hooks["c1"]) = RequestKey(hooks["c2"])
    /\ hooks["c1"].memoPromise = hooks["c2"].memoPromise
    /\ hooks["c1"].memoPromise = firstBox[RequestKey(hooks["c1"])]
    /\ promises[hooks["c1"].memoPromise].work = "running"
    /\ nextBox = 2

\* C2: the ObservableQuery a request hands to the component is the one stored
\* in the entry of the requested key, and client.watchQuery is not called by
\* a first render that finds an entry for its key.
C2_OneObservablePerKey ==
    [][\A c \in Consumers :
          RenderedBy(c) =>
            LET x == RequestKey(hooks'[c])
            IN /\ hooks'[c].observable
                    = entries'[EntryAt(queries', x[1], x[2])].observable
               /\ (~hooks[c].mounted /\ EntryAt(queries, x[1], x[2]) # NoBox)
                    => hooks'[c].observable # watchQuery(c)]_vars

\* The reactions add attached to promise b have all run.
Handled(b) == promises[b].pc = "done"

\* C3: once the reactions of a promise whose work rejected with E have run,
\* its status is rejected and its reason is E.
C3_RejectionRecorded ==
    \A b \in Boxes :
        promises[b].work = "rejected" /\ Handled(b) =>
            /\ promises[b].status = "rejected"
            /\ promises[b].reason = promises[b].outcome

\* C4: value and status are set together: no state has a value on a pending
\* promise, and a fulfilled promise whose work resolved with R has value R.
C4_ValueWithStatus ==
    \A b \in Boxes :
        /\ promises[b].status = "pending" => promises[b].value = Undefined
        /\ (promises[b].work = "resolved" /\ promises[b].status = "fulfilled")
              => promises[b].value = promises[b].outcome

\* C5: the status of a promise starts at pending and, once fulfilled or
\* rejected, never changes again.
C5_StatusTerminal ==
    [][\A b \in Boxes :
          /\ (promises[b].work = "none" /\ promises'[b].work # "none")
                => promises'[b].status = "pending"
          /\ promises[b].status \in {"fulfilled", "rejected"}
                => promises'[b].status = promises[b].status]_vars

\* C6: value is present iff the status is fulfilled, and reason is present
\* iff the status is rejected.
C6_FieldsMatchStatus ==
    \A b \in Boxes :
        promises[b].work # "none" =>
            /\ promises[b].value # Undefined <=> promises[b].status = "fulfilled"
            /\ promises[b].reason # Undefined <=> promises[b].status = "rejected"

\* C7: the force-read of a promise the cache issued throws the promise while
\* pending, returns the stored value when fulfilled, throws the stored error
\* when rejected, and never returns undefined.
C7_ReadTotal ==
    \A b \in Boxes :
        promises[b].work # "none" =>
            LET r == useReadQuery(b)
            IN /\ promises[b].status = "pending"
                    => r.thrown = "promise" /\ r.promise = b
               /\ promises[b].status = "fulfilled"
                    => r.thrown = "no" /\ r.payload = promises[b].value
               /\ promises[b].status = "rejected"
                    => r.thrown = "reason" /\ r.payload = promises[b].reason
               /\ r.thrown = "no" => r.payload # Undefined
               /\ r.thrown = "reason" => r.payload # Undefined

\* C8: once a promise whose work rejected with E is no longer pending, every
\* force-read of it throws E.
C8_ReadRaisesError ==
    \A b \in Boxes :
        (promises[b].work = "rejected" /\ promises[b].status # "pending") =>
            /\ useReadQuery(b).thrown = "reason"
            /\ useReadQuery(b).payload = promises[b].outcome

\* C9: the promise a request creates is pending when the request returns; a
\* promise whose work resolved becomes fulfilled (it is once its reactions
\* have run) and then stays fulfilled.
C9_PendingThenFulfilled ==
    /\ [][\A c \in Consumers :
             (RenderedBy(c) /\ nextBox' # nextBox) =>
                 /\ hooks'[c].memoPromise = nextBox
                 /\ promises'[nextBox].status = "pending"]_vars
    /\ [](\A b \in Boxes :
             (promises[b].work = "resolved" /\ Handled(b))
                 => promises[b].status = "fulfilled")
    /\ [][\A b \in Boxes :
             (promises[b].work = "resolved" /\ promises[b].status = "fulfilled")
                 => promises'[b].status = "fulfilled"]_vars
    /\ \A b \in Boxes :
           (promises[b].work = "resolved") ~> (promises[b].status = "fulfilled")

\* The promise of an initial request, held by a component, is fulfilled after
\* its work resolved.
C9_Witness ==
    \E c \in Consumers :
        /\ hooks[c].mounted
        /\ hooks[c].memoPromise = firstBox[RequestKey(hooks[c])]
        /\ promises[hooks[c].memoPromise].work = "resolved"
        /\ promises[hooks[c].memoPromise].status = "fulfilled"

\* C10: when refetch returns, the entry of the subscription's (query, key)
\* holds a promise that did not exist before, that promise is pending, and it
\* is the promise refetch returns.
C10_RefetchReplacesBox ==
    [][lastCall'.op = "refetch" =>
          LET c == lastCall'.consumer
              x == RequestKey(hooks[c])
              b == lastCall'.returned
          IN /\ EntryAt(queries', x[1], x[2]) = b
             /\ b # EntryAt(queries, x[1], x[2])
             /\ promises[b].work = "none"
             /\ promises'[b].status = "pending"]_vars

\* refetch has just returned a pending promise that replaced, in the entry
\* of its key, the promise the component was holding.
C10_Witness ==
    /\ lastCall.op = "refetch"
    /\ LET c == lastCall.consumer
           x == RequestKey(hooks[c])
       IN /\ hooks[c].memoPromise \notin {NoBox, lastCall.returned}
          /\ EntryAt(queries, x[1], x[2]) = lastCall.returned
          /\ promises[lastCall.returned].status = "pending"

\* C11: when fetchMore returns, the promise it returns did not exist before,
\* wraps the running fetch-more work and is pending; the entry of the
\* (query, key) the component requested holds it instead of the promise it
\* held before, and the entry of every other (query, key) is as it was.
C11_FetchMoreReplacesBox ==
    [][lastCall'.op = "fetchMore" =>
          LET c == lastCall'.consumer
              x == RequestKey(hooks[c])
              b == lastCall'.returned
          IN /\ promises[b].work = "none"
             /\ promises'[b].work = "running"
             /\ promises'[b].status = "pending"
             /\ EntryAt(queries', x[1], x[2]) = b
             /\ EntryAt(queries, x[1], x[2]) # b
             /\ \A y \in QK \ {x} :
                   EntryAt(queries', y[1], y[2]) = EntryAt(queries, y[1], y[2])]_vars

\* fetchMore has just returned: the entry of the component's key, a key
\* with variables, holds the returned promise in place of the promise the
\* component was rendered with.
C11_Witness ==
    /\ lastCall.op = "fetchMore"
    /\ LET c == lastCall.consumer
           x == RequestKey(hooks[c])
       IN /\ x[2] # <<>>
          /\ hooks[c].memoPromise \notin {NoBox, lastCall.returned}
          /\ EntryAt(queries, x[1], x[2]) = lastCall.returned
          /\ promises[lastCall.returned].status = "pending"

\* The outcome promise b shows once its reactions have run is the outcome of
\* the work behind it, and so is what a force-read of it gives.
OwnOutcome(b) ==
    Handled(b) =>
        /\ promises[b].work = "resolved" =>
              /\ promises[b].status = "fulfilled"
              /\ promises[b].value = ResultOf(b)
              /\ useReadQuery(b) =
                    [thrown |-> "no", promise |-> NoBox, payload |-> ResultOf(b)]
        /\ promises[b].work = "rejected" =>
              /\ promises[b].status = "rejected"
              /\ promises[b].reason = promises[b].outcome
              /\ useReadQuery(b) =
                    [thrown |-> "reason", promise |-> NoBox,
                     payload |-> promises[b].outcome]

\* No step that creates or changes another promise changes a promise that a
\* refetch replaces or has replaced while it was pending: neither the refetch
\* nor the settlement of the new promise touches the old one.
C12_OldBoxUntouched ==
    [][\A b \in Boxes :
          superseded'[b].by = "refetch" =>
            \A b2 \in Boxes \ {b} :
               promises'[b2] # promises[b2] => promises'[b] = promises[b]]_vars

\* C12: a promise replaced by refetch while pending is not changed by the
\* refetch or by the new promise's settlement; once settled, the old promise
\* shows the outcome of its own work and the new one the refetched outcome,
\* and a force-read of the old promise gives its original result.
C12_RefetchMidFlight ==
    /\ C12_OldBoxUntouched
    /\ [](\A b \in Boxes :
             superseded[b].by = "refetch" =>
                 OwnOutcome(b) /\ OwnOutcome(superseded[b].box))

\* C13: a refetch or fetchMore leaves the ObservableQuery of the key's entry
\* the same object, and a later request for the key by any component returns
\* the promise now in the entry together with the entry's ObservableQuery.
C13_ReplaceVisibleToAll ==
    /\ [][\A x \in QK :
             LET old == EntryAt(queries, x[1], x[2])
                 new == EntryAt(queries', x[1], x[2])
             IN (lastCall'.op \in {"refetch", "fetchMore"}
                    /\ old # NoBox /\ new # old)
                  => entries'[new].observable = entries[old].observable]_vars
    /\ [][\A d \in Consumers :
             LET x == RequestKey(hooks'[d])
                 inEntry == EntryAt(queries, x[1], x[2])
             IN (RenderedBy(d) /\ inEntry # NoBox /\ replaces[x] > 0)
                  => /\ hooks'[d].memoPromise = inEntry
                     /\ hooks'[d].observable = entries[inEntry].observable]_vars

\* The components that hold the subscription of (query, key) x: they were
\* rendered with it and have not been rendered with another since.
Holders(x) ==
    { c \in Consumers : hooks[c].mounted /\ RequestKey(hooks[c]) = x }

\* C14: an entry leaves the table only when no component holds it, and a
\* remove call leaves the table as it is when the entry is held or its
\* ObservableQuery has observers.
C14_RemoveOnlyUnused ==
    /\ [][\A x \in QK :
             (EntryAt(queries, x[1], x[2]) # NoBox
                 /\ EntryAt(queries', x[1], x[2]) = NoBox)
               => Holders(x) = {}]_vars
    /\ [](\A q \in Queries, raw \in RawVariables, observed \in BOOLEAN :
             (lookup(q, raw) # NoBox
                 /\ (observed \/ Holders(<<q, getVariablesKey(raw)>>) # {}))
               => remove(q, raw, observed) = queries)

C16_RefCountLifecycle ==
    [][lastCall'.op = "remove" =>
          LET s == EntryAt(queries, lastCall'.query, lastCall'.key)
          IN (s # NoBox /\ subscriptions[s].acquires >= 1) =>
               /\ (subscriptions[s].disposes = subscriptions[s].acquires
                      /\ subscriptions[s].external = {})
                    => EntryAt(queries', lastCall'.query, lastCall'.key) = NoBox
               /\ subscriptions[s].disposes = subscriptions[s].acquires - 1
                    => queries' = queries]_vars

\* The components that hold QuerySubscription s: it is in their tracked set
\* and they have not been cleaned up since their last render.
HoldersOf(s) == { c \in Consumers : attached[c] /\ s \in tracked[c] }

\* C17: the refCount of a QuerySubscription is the number of components
\* that hold it; it is 0 when every component that rendered with it has been
\* cleaned up.
C17_RefCountIsHolders ==
    \A s \in Subs :
        subscriptions[s].acquires >= 1 =>
            subscriptions[s].refCount = Cardinality(HoldersOf(s))

\* C18: a repeated call of a component's dispose function leaves every
\* refCount at zero or more, and leaves unremovable every entry that was
\* unremovable and is held by another component.
C18_RepeatedDisposeHarmless ==
    [][\A c \in Consumers :
          (cleanups[c] >= 1 /\ cleanups'[c] = cleanups[c] + 1) =>
             \A s \in Subs :
                /\ subscriptions'[s].refCount >= 0
                /\ (HoldersOf(s) \ {c} # {} /\ hasObservers(subscriptions[s]))
                      => hasObservers(subscriptions'[s])]_vars

\* The result an emission delivers is, for component c, the same as the last
\* one it recorded: same loading flag, same networkStatus, deep-equal data.
SameAsRecorded(c, result) ==
    /\ resultRef[c].loading = result.loading
    /\ resultRef[c].networkStatus = result.networkStatus
    /\ resultRef[c].data.content = result.data.content

\* C19, as stated: at every emission, a component whose observer is
\* registered has its callback called zero times when the result is the same
\* as the last one it recorded, and exactly once when it differs.
C19_EqualityGating ==
    [][lastCall'.op = "emit" =>
          \A c \in Listening :
              lastCall'.forceUpdates[c] =
                  IF SameAsRecorded(c, current') THEN 0 ELSE 1]_vars

\* C19, amended: zero times when the result is the same; when it differs the
\* result is recorded, and the callback is called exactly once if the
\* component is mounted and not at all while it is suspended.
C19_EqualityGatingWhenMounted ==
    [][lastCall'.op = "emit" =>
          \A c \in Listening :
              /\ SameAsRecorded(c, current') =>
                    /\ lastCall'.forceUpdates[c] = 0
                    /\ resultRef'[c] = resultRef[c]
              /\ ~SameAsRecorded(c, current') =>
                    /\ lastCall'.forceUpdates[c] = IF isMountedRef[c] THEN 1 ELSE 0
                    /\ resultRef'[c] = current']_vars

\* An emission has just been delivered to two components: one was called
\* once, the other holds a deep-equal result in another object and was not
\* called.
C19_Witness ==
    /\ lastCall.op = "emit"
    /\ \E c, d \in Listening :
          /\ lastCall.forceUpdates[c] = 1
          /\ resultRef[c] = current
          /\ lastCall.forceUpdates[d] = 0
          /\ isMountedRef[d]
          /\ resultRef[d] # current
          /\ equal(resultRef[d].data, current.data)

\* C20: the first call of an unsubscribe function removes the observer of
\* its subscribe call and no other; every later call leaves the observers
\* of the ObservableQuery as they are.
C20_UnsubscribeIdempotent ==
    [][/\ \A x \in SubscribeCalls :
             /\ (unsubscribes[x] = "never" /\ unsubscribes'[x] = "once")
                   => x \in observers /\ observers' = observers \ {x}
             /\ (unsubscribes[x] = "once" /\ unsubscribes'[x] = "again")
                   => observers' = observers
       /\ \A y \in observers \ observers' :
             unsubscribes[y] = "never" /\ unsubscribes'[y] = "once"]_vars

\* An unsubscribe function has been called twice while a later observer of
\* the same component and an observer of another component stay registered.
C20_Witness ==
    \E x \in SubscribeCalls :
        /\ unsubscribes[x] = "again"
        /\ \E y, z \in observers : y[1] = x[1] /\ y[2] > x[2] /\ z[1] # x[1]

\* C21: the ObservableQuery is created with fetchOnFirstSubscribe = false,
\* and no subscribe call starts a fetch: after the initial fetch and the
\* first subscribe the ObservableQuery has started one fetch, not two.
C21_NoFetchOnFirstSubscribe ==
    /\ [](watchOptions.fetchOnFirstSubscribe = "false")
    /\ [][subscribes' # subscribes =>
             /\ fetches' = fetches
             /\ fetch' = fetch]_vars

\* The first subscribe call has been made after the initial fetch, and the
\* ObservableQuery has started one fetch.
C21_Witness ==
    /\ \E c \in Consumers : subscribes[c] = 1 /\ <<c, 1>> \in observers
    /\ \A c \in Consumers : subscribes[c] <= 1
    /\ Cardinality(observers) = 1
    /\ fetch.state = "running"
    /\ fetches = 1

\* The arguments a variables object gives after normalization: the names
\* that have a value, each with its value.
Normalized(variables) ==
    { <<SortedNames[i], PropValue(variables.props, SortedNames[i])>> :
        i \in { j \in 1..Len(SortedNames) :
                  PropValue(variables.props, SortedNames[j]) # Undefined } }

C23_QueriesByIdentity ==
    /\ [](\A q1, q2 \in Queries, k \in Keys :
            (q1 # q2 /\ EntryAt(queries, q1, k) # NoBox)
               => EntryAt(queries, q2, k) # EntryAt(queries, q1, k))
    /\ [][lastCall'.op \in {"add", "remove"} =>
             \A q \in Queries \ {lastCall'.query}, k \in Keys :
                EntryAt(queries', q, k) = EntryAt(queries, q, k)]_vars

\* add has just returned for a query while another query holds an entry
\* under the same key: each query has its own entry.
C23_Witness ==
    /\ lastCall.op = "add"
    /\ \E q \in Queries \ {lastCall.query} :
          /\ EntryAt(queries, q, lastCall.key) # NoBox
          /\ EntryAt(queries, q, lastCall.key) # lastCall.returned
    /\ EntryAt(queries, lastCall.query, lastCall.key) = lastCall.returned

\* The reverse lookup from promise b: promise.observable, which is how
\* useReadQuery gets from the promise to its ObservableQuery.
OwnerOf(b) == promises[b].observable

\* C24: in every state where a promise issued by the cache (initial request,
\* refetch or fetchMore) is no longer pending, the reverse lookup from it
\* gives the ObservableQuery it was added with.
C24_ReverseLookup ==
    \A b \in Boxes :
        (promises[b].work # "none" /\ promises[b].status # "pending")
            => /\ OwnerOf(b) # NoObservable
               /\ OwnerOf(b) = entries[b].observable

\* Components c and d hold the same (query, key), whose entry has not been
\* removed since either of them requested it.
SameKeyHeld(c, d) ==
    /\ c # d
    /\ hooks[c].mounted /\ hooks[d].mounted
    /\ RequestKey(hooks[c]) = RequestKey(hooks[d])
    /\ firstBox[RequestKey(hooks[c])] # NoBox
    /\ hooks[c].firstBox = firstBox[RequestKey(hooks[c])]
    /\ hooks[d].firstBox = firstBox[RequestKey(hooks[c])]

\* Once the initial fetch of the key c and d hold has resolved with V and
\* its reactions have run, a force-read by either returns V, and the key's
\* entry still holds the promise of that fetch.
ReadsFirstResult(c, d) ==
    LET x == RequestKey(hooks[c])
        b == firstBox[x]
    IN (promises[b].work = "resolved" /\ Handled(b)) =>
          /\ \A e \in {c, d} :
                useReadQuery(hooks[e].memoPromise) =
                   [thrown |-> "no", promise |-> NoBox, payload |-> ResultOf(b)]
          /\ EntryAt(queries, x[1], x[2]) = b

\* C25, as stated: a component that requests a key another component
\* requested, before the key's initial fetch has settled, is handed the same
\* promise, pending, and no fetch is issued; once that fetch has resolved
\* with V every force-read by either returns V and no other fetch was issued
\* for the key.
C25_TwoConsumersOneFetch ==
    /\ [][\A c, d \in Consumers :
             (c # d /\ RenderedBy(c) /\ EarlierRequest(c, d)) =>
                /\ SameBoxNoFetch(c, d)
                /\ promises'[hooks'[c].memoPromise].status = "pending"]_vars
    /\ [](\A c, d \in Consumers : SameKeyHeld(c, d) => ReadsFirstResult(c, d))

\* C25, amended: the same, when no refetch and no fetchMore was issued on
\* the key.
C25_TwoConsumersOneFetchNoReplace ==
    /\ [][\A c, d \in Consumers :
             (c # d /\ RenderedBy(c) /\ EarlierRequest(c, d)
                 /\ replaces[RequestKey(hooks[d])] = 0) =>
                /\ SameBoxNoFetch(c, d)
                /\ promises'[hooks'[c].memoPromise].status = "pending"]_vars
    /\ [](\A c, d \in Consumers :
            (SameKeyHeld(c, d) /\ replaces[RequestKey(hooks[c])] = 0)
               => ReadsFirstResult(c, d))

\* Two components hold the promise of the only fetch issued, which has
\* resolved, and a force-read by either returns its result.
C25_Witness ==
    /\ SameKeyHeld("c1", "c2")
    /\ hooks["c1"].memoPromise = hooks["c2"].memoPromise
    /\ nextBox = 2
    /\ promises[1].work = "resolved"
    /\ useReadQuery(hooks["c1"].memoPromise).payload = ResultOf(1)
    /\ useReadQuery(hooks["c2"].memoPromise).thrown = "no"

\* The (query, key) a call of the hook that missed is about to add.
MissedKey(c) ==
    <<position[c].query, getVariablesKey(position[c].variables)>>

\* C26: no two calls of the hook have both found the same key absent without
\* having inserted it, and the step that follows a lookup that found the key
\* absent is the insertion by the same call: the key is still absent, no
\* other call has moved, no promise has been settled or handled and no entry
\* has been removed in between.
C26_LookupOrCreateAtomic ==
    /\ [](\A c, d \in Consumers :
            (c # d /\ position[c].at = "missed" /\ position[d].at = "missed")
               => MissedKey(c) # MissedKey(d))
    /\ [][\A c \in Consumers :
             position[c].at = "missed" =>
                LET x == MissedKey(c)
                IN /\ EntryAt(queries, x[1], x[2]) = NoBox
                   /\ position'[c].at = "idle"
                   /\ EntryAt(queries', x[1], x[2]) = position'[c].promise
                   /\ position'[c].promise = nextBox
                   /\ \A d \in Consumers \ {c} : position'[d] = position[d]
                   /\ \A b \in Boxes \ {nextBox} :
                         promises'[b] = promises[b]]_vars

\* Two components have requested the same key one right after the other:
\* the second found the entry the first had just inserted, and one fetch, not
\* yet settled, has been issued.
C26_Witness ==
    /\ position["c1"].at = "idle" /\ position["c2"].at = "idle"
    /\ position["c1"].promise = 1
    /\ position["c2"].promise = 1
    /\ promises[1].work = "running"
    /\ nextBox = 2

\* Component c has an observer registered on the ObservableQuery.
HasListener(c) == \E x \in observers : x[1] = c

\* Component c has called an unsubscribe function and has no observer
\* registered.
HasLeft(c) ==
    /\ ~HasListener(c)
    /\ \E x \in SubscribeCalls : x[1] = c /\ unsubscribes[x] # "never"

\* An emission calls no callback of a component that has left and leaves
\* what it recorded alone, while a mounted component whose observer is
\* registered is called when the result differs from the one it recorded.
DeliveredToListenersOnly ==
    [][lastCall'.op = "emit" =>
          /\ \A c \in Consumers :
                HasLeft(c) => /\ lastCall'.forceUpdates[c] = 0
                              /\ resultRef'[c] = resultRef[c]
          /\ \A d \in Consumers :
                (HasListener(d) /\ isMountedRef[d]
                    /\ ~SameAsRecorded(d, current'))
                  => /\ lastCall'.forceUpdates[d] = 1
                     /\ resultRef'[d] = current']_vars

\* C27, as stated: after a component has unsubscribed no callback is
\* delivered to it and the other components' listeners are still called,
\* and no call of an unsubscribe function changes the fetch in flight.
C27_UnsubscribeStopsDelivery ==
    /\ DeliveredToListenersOnly
    /\ [][unsubscribes' # unsubscribes => fetch' = fetch]_vars

\* C27, amended: the same, the fetch in flight being left alone by every
\* call of an unsubscribe function that leaves an observer registered on the
\* ObservableQuery.
C27_UnsubscribeStopsDeliveryWhileObserved ==
    /\ DeliveredToListenersOnly
    /\ [][(unsubscribes' # unsubscribes /\ observers' # {})
             => fetch' = fetch]_vars

\* An emission has just been delivered while a fetch is in flight: c1, which
\* has unsubscribed and holds an older result, was not called, and c2, whose
\* observer is registered, was.
C27_Witness ==
    /\ lastCall.op = "emit"
    /\ HasLeft("c1")
    /\ isMountedRef["c1"]
    /\ resultRef["c1"].data.content # current.data.content
    /\ lastCall.forceUpdates["c1"] = 0
    /\ HasListener("c2")
    /\ lastCall.forceUpdates["c2"] = 1
    /\ fetch.state = "running"

\* C28: the chain of reactions add attaches to a promise never ends
\* rejected: whether the work resolved or rejected, the promise the chain
\* yields is fulfilled from the .catch reaction on, and it is once every
\* reaction has run.
C28_ChainNeverRejected ==
    \A b \in Boxes :
        /\ promises[b].pc \in {"finally", "done"}
              => promises[b].chain = "fulfilled"
        /\ (promises[b].work \in {"resolved", "rejected"} /\ Handled(b))
              => promises[b].chain = "fulfilled"

\* The reactions of a promise whose work rejected and of one whose work
\* resolved have all run, and both chains ended fulfilled.
C28_Witness ==
    \E b1, b2 \in Boxes :
        /\ promises[b1].work = "rejected" /\ Handled(b1)
        /\ promises[b1].chain = "fulfilled"
        /\ promises[b2].work = "resolved" /\ Handled(b2)
        /\ promises[b2].chain = "fulfilled"

\* C29: after every emission that differs from the result a listening
\* component has recorded, the result it has recorded is the current result
\* of the ObservableQuery, whatever fetch was started or settled since the
\* component read its promise, and that result is what its read returns.
C29_ReadsLatestResult ==
    [][lastCall'.op = "emit" =>
          \A c \in Consumers :
              (HasListener(c) /\ ~SameAsRecorded(c, current')) =>
                  /\ resultRef'[c] = current'
                  /\ getSnapshot(c)' = current']_vars

\* An emission has just reached a listening component after the promise of
\* a second fetch settled with another result: the component reads the
\* emitted result, not the value the promise holds.
C29_Witness ==
    /\ lastCall.op = "emit"
    /\ HasListener("c1")
    /\ fetches = 2
    /\ fetch.state = "settled"
    /\ fetch.value.data.content # current.data.content
    /\ getSnapshot("c1") = current

\* The queries that have an entry under at least one key.
QueriesWithEntries ==
    { q \in Queries : \E k \in Keys : EntryAt(queries, q, k) # NoBox }

\* C30: the first level of the table holds one map per query that has an
\* entry under at least one key, and no other: exactly one when the entries
\* are all of one query.
C30_OneMapPerQueryWithEntries ==
    /\ DOMAIN queries = QueriesWithEntries
    /\ Cardinality(DOMAIN queries) = Cardinality(QueriesWithEntries)
    /\ \A q \in DOMAIN queries : DOMAIN queries[q] # {}
    /\ lastCall.op = "add" => lastCall.query \in DOMAIN queries

\* remove has just deleted the only entry of one query: its map has left the
\* first level, which holds the map of the other query alone.
C30_Witness ==
    /\ lastCall.op = "remove"
    /\ lastCall.query \notin DOMAIN queries
    /\ Cardinality(DOMAIN queries) = 1
    /\ nextBox = 3

\* C31: no query of the first level has an empty map, and a remove that
\* deletes the only key a query has takes the query's map out of the first
\* level.
C31_NoEmptyMap ==
    /\ [](\A q \in DOMAIN queries : DOMAIN queries[q] # {})
    /\ [][(/\ lastCall'.op = "remove"
           /\ ~lastCall'.observed
           /\ lastCall'.query \in DOMAIN queries
           /\ DOMAIN queries[lastCall'.query] = {lastCall'.key})
              => lastCall'.query \notin DOMAIN queries']_vars

\* After two adds, remove has just returned without having met observers
\* and the first level is empty: the last key went and its map with it.
C31_Witness ==
    /\ lastCall.op = "remove"
    /\ ~lastCall.observed
    /\ nextBox = 3
    /\ DOMAIN queries = {}

\* C32: a promise whose status is fulfilled has its ObservableQuery recorded
\* on it, whether its work resolved or rejected, so a force-read that gets
\* past the pending and rejected tests hands useObservableQueryResult a
\* defined ObservableQuery.
C32_FulfilledHasObservable ==
    \A b \in Boxes :
        promises[b].work # "none" =>
            /\ promises[b].status = "fulfilled"
                  => promises[b].observable # NoObservable
            /\ useReadQueryObservable(b).thrown = "no"
                  => useReadQueryObservable(b).observable = entries[b].observable

\* The flag of an entry is false when add builds the entry and, once true,
\* stays true.
FlagMonotone ==
    \A b \in Boxes :
        /\ (promises[b].work = "none" /\ promises'[b].work # "none")
              => ~entries'[b].fulfilled
        /\ entries[b].fulfilled => entries'[b].fulfilled

\* C33, as stated: in every state the fulfilled flag of an entry is true
\* if and only if its own promise is no longer pending; the flag starts
\* false on add and never returns to false.
C33_FlagIffNotPending ==
    /\ [](\A b \in Boxes :
             promises[b].work # "none" =>
                 (entries[b].fulfilled <=> promises[b].status # "pending"))
    /\ [][FlagMonotone]_vars

\* C33, amended: the flag is true if and only if the last reaction of the
\* entry's own promise (.finally) has run; a flagged entry's promise is not
\* pending; when no reaction is due, the flag is true if and only if the
\* promise is no longer pending; the flag starts false and stays true.
C33_FlagIffHandled ==
    /\ [](\A b \in Boxes :
             promises[b].work # "none" =>
                 /\ entries[b].fulfilled <=> Handled(b)
                 /\ entries[b].fulfilled => promises[b].status # "pending"
                 /\ ~MicrotaskDue =>
                       (entries[b].fulfilled <=> promises[b].status # "pending"))
    /\ [][FlagMonotone]_vars

\* One promise has had all its reactions run and its entry is flagged; the
\* other, whose work rejected, is between .catch and .finally: it is no
\* longer pending and its entry is not flagged yet.
C33_Witness ==
    \E b1, b2 \in Boxes :
        /\ Handled(b1) /\ entries[b1].fulfilled
        /\ promises[b2].work = "rejected"
        /\ promises[b2].pc = "finally"
        /\ promises[b2].status = "rejected"
        /\ ~entries[b2].fulfilled

\* Promise b was added to the cache and its entry is no longer the one any
\* (query, key) holds.
Displaced(b) ==
    /\ promises[b].work # "none"
    /\ \A q \in Queries, k \in Keys : EntryAt(queries, q, k) # b

\* The step is part of the settlement of promise b: the end of its work or
\* one of its reactions.
SettlementStepOf(b) ==
    /\ promises[b].work # "none"
    /\ promises'[b] # promises[b] \/ entries'[b] # entries[b]

\* C34: a step of the settlement of a promise whose entry has been replaced
\* in the table changes that promise and its entry object alone: every
\* other promise (status, value and the rest), every other entry (its flag
\* included) and the table are as before.
C34_StaleSettlementFrame ==
    [][\A b \in Boxes :
          (Displaced(b) /\ SettlementStepOf(b)) =>
              /\ queries' = queries
              /\ \A b2 \in Boxes \ {b} :
                    /\ promises'[b2] = promises[b2]
                    /\ entries'[b2] = entries[b2]]_vars

\* The promise a refetch replaced while it was pending has had all its
\* reactions run, and the promise the refetch returned, which the key's
\* entry holds, is still pending with its entry not flagged.
C34_Witness ==
    \E b \in Boxes :
        /\ superseded[b].by = "refetch"
        /\ Displaced(b)
        /\ Handled(b)
        /\ entries[b].fulfilled
        /\ promises[superseded[b].box].status = "pending"
        /\ ~entries[superseded[b].box].fulfilled
        /\ \E q \in Queries, k \in Keys :
              EntryAt(queries, q, k) = superseded[b].box

\* C35: at every emission, a listening component that is not mounted and
\* whose recorded result differs from the emitted one records the emitted
\* result and is not called; a component is called only if it is listening,
\* mounted, and the emitted result differs from the one it had recorded.
C35_NoCallbackWhileSuspended ==
    [][lastCall'.op = "emit" =>
          \A c \in Consumers :
              /\ (/\ c \in Listening
                  /\ ~isMountedRef[c]
                  /\ ~SameAsRecorded(c, current'))
                    => /\ resultRef'[c] = current'
                       /\ lastCall'.forceUpdates[c] = 0
              /\ lastCall'.forceUpdates[c] > 0
                    => /\ c \in Listening
                       /\ isMountedRef[c]
                       /\ ~SameAsRecorded(c, current')]_vars

\* An emission has just been delivered to two listening components: the
\* suspended one holds the emitted result and was not called, the mounted
\* one was called once.
C35_Witness ==
    /\ lastCall.op = "emit"
    /\ \E c, d \in Listening :
          /\ ~isMountedRef[c]
          /\ resultRef[c] = current
          /\ current.data.obj = "d3"
          /\ lastCall.forceUpdates[c] = 0
          /\ isMountedRef[d]
          /\ lastCall.forceUpdates[d] = 1

\* C36: add(query, variables, { promise, observable }) leaves what lookup
\* returns for every other query and for every other key of the query as it
\* was, and leaves every other promise and entry object unchanged; after it
\* the addressed key holds the entry of the promise passed, whatever it
\* held before (nothing, or an entry whose promise is still pending).
C36_AddFrame ==
    [][lastCall'.op = "add" =>
          /\ \A q \in Queries, k \in Keys :
                <<q, k>> # <<lastCall'.query, lastCall'.key>>
                   => EntryAt(queries', q, k) = EntryAt(queries, q, k)
          /\ \A b \in Boxes \ {lastCall'.returned} :
                /\ promises'[b] = promises[b]
                /\ entries'[b] = entries[b]
          /\ EntryAt(queries', lastCall'.query, lastCall'.key)
                = lastCall'.returned
          /\ EntryAt(queries, lastCall'.query, lastCall'.key)
                # lastCall'.returned]_vars

\* add has just returned: the key holds the entry of the second promise,
\* and the first promise, no longer in the table, is still pending with its
\* work running.
C36_Witness ==
    /\ lastCall.op = "add"
    /\ lastCall.returned = 2
    /\ EntryAt(queries, lastCall.query, lastCall.key) = 2
    /\ Cardinality(DOMAIN queries) = 1
    /\ Cardinality(DOMAIN queries[lastCall.query]) = 1
    /\ promises[1].work = "running"
    /\ promises[1].status = "pending"

\* C37: for a promise that resolved and for which the reverse lookup finds
\* no QuerySubscription, useReadQuery throws nothing, returns the result the
\* promise resolved with, never the result of a QuerySubscription, and
\* subscribes with the listener that does nothing.
C37_ReadWithoutSubscription ==
    \A b \in Boxes :
        (promises[b].work = "resolved" /\ getSubscriptionFromPromise(b) = NoSub)
            => LET r == useReadQuerySubscription(b)
               IN /\ r.thrown = "no"
                  /\ r.payload = ResultOf(b)
                  /\ r.listener = "noop"
                  /\ \A s \in Subs :
                        latestResult[s] # ResultOf(b)
                           => r.payload # latestResult[s]

\* A component has read a promise the cache no longer has registered, whose
\* QuerySubscription has received a later result since: the read returned
\* the result the promise resolved with, with the listener that does
\* nothing; the other component has read the other QuerySubscription's
\* later result.
C37_Witness ==
    \E c, d \in Consumers, b \in Boxes :
        /\ reads[c].promise = b
        /\ promiseOwner[b] = NoSub
        /\ \E s \in Subs :
              promiseOf[s] = b /\ latestResult[s] = LaterResult(s)
        /\ reads[c].thrown = "no"
        /\ reads[c].payload = ResultOf(b)
        /\ reads[c].listener = "noop"
        /\ reads[d].listener = "listen"
        /\ reads[d].payload = LaterResult(reads[d].subscription)

\* C38: undefined variables and an empty variables object give the same
\* key, so add, lookup and remove called with the one address the entry
\* the other addresses: an entry added under either is found under the
\* other.
C38_UndefinedIsEmpty ==
    /\ getVariablesKey(UndefinedVariables) = getVariablesKey(EmptyObject)
    /\ \A q \in Queries :
          /\ lookup(q, UndefinedVariables) = lookup(q, EmptyObject)
          /\ \A observed \in BOOLEAN :
                remove(q, UndefinedVariables, observed)
                   = remove(q, EmptyObject, observed)
          /\ \A b \in Boxes :
                add(q, UndefinedVariables, b) = add(q, EmptyObject, b)
    /\ (/\ keyArgs.next = "done"
        /\ keyArgs.via = "cache"
        /\ {keyArgs.a, keyArgs.b} = {UndefinedVariables, EmptyObject})
          => keyFound = "found"

\* The entry added with undefined variables has been found with an empty
\* object, and a remove with either would delete it.
C38_Witness ==
    /\ keyArgs.next = "done"
    /\ keyArgs.via = "cache"
    /\ keyArgs.a = UndefinedVariables
    /\ keyArgs.b = EmptyObject
    /\ keyFound = "found"
    /\ lookup("Q1", EmptyObject) # NoBox
    /\ DOMAIN remove("Q1", EmptyObject, FALSE) = {}
    /\ DOMAIN remove("Q1", UndefinedVariables, FALSE) = {}

====
